---- MODULE Spec2Model ----
(***************************************************************************)
(* Model of the CAT mental-math trainer: the three zustand stores          *)
(* (useGameStore, useChainStore, useDivisibilityStore), the game           *)
(* components that keep their session in React state (MathGame,            *)
(* PercentageGame, RatioGame), the ChainGame auto-end effect, and the      *)
(* problem engines the sessions draw their problems from.                  *)
(*                                                                         *)
(* Conventions                                                             *)
(*  - a nullable field holds null (the empty tuple) or Some(v) = <<v>>;    *)
(*  - Date.now() is the variable now, in milliseconds;                     *)
(*  - Math.random() is a nondeterministic choice; a range sampler returns  *)
(*    the set of values the model draws from the range;                    *)
(*  - percentages are held in hundredths of a percent (65.43 is 6543),     *)
(*    and isPercentageCorrect compares them in thousandths;                *)
(*  - ret holds the value returned by the store action that ran last;      *)
(*  - an engine function called on its own, outside a session, keeps its   *)
(*    arguments and locals in call and leaves its result in ret;           *)
(*  - a store that was rehydrated from its storage keeps the stored state  *)
(*    in call.storage.                                                     *)
(***************************************************************************)
EXTENDS Integers, Sequences, FiniteSets, TLC

VARIABLES
    scenario,              \* which component or store the behaviour drives
    now,                   \* Date.now()
    useGameStore,          \* store.ts
    MathGame,              \* React state of the MathGame component
    PercentageGame,        \* React state of the PercentageGame component
    RatioGame,             \* React state of the RatioGame component
    timers,                \* pending setTimeout callbacks (auto-advance)
    useChainStore,         \* chainStore.ts
    chainEffect,           \* ChainGame: the auto-end effect is scheduled
    useDivisibilityStore,  \* divisibilityStore.ts
    ret,                   \* value returned by the last handler: null, Some(b)
    sessionFolds,          \* per store: games folded since the last startGame
    call                   \* frame of an engine function called on its own

vars == <<scenario, now, useGameStore, MathGame, PercentageGame, RatioGame,
          timers, useChainStore, chainEffect, useDivisibilityStore,
          ret, sessionFolds, call>>

-----------------------------------------------------------------------------
(* Bounds of the model *)

\* number of clock ticks in a behaviour
MaxTicks == 1
\* milliseconds per clock tick
TickMs == 5000
\* values drawn from a sampled range by a session
SampleSpan == 1
\* values drawn from a sampled range by an engine function called on its own
EngineSpan == 3
\* values drawn from a sampled range by an engine function that is applied
\* to its whole ranges: the widest range of percentageEngine.ts, 50..300,
\* has this many values
WholeRange == 251
\* longest chain asked of generateChain when it is called on its own
EngineChainLength == 6
\* most steps passed to calculateChainStats when it is called on its own
MaxStatsSteps == 4
\* entries a stored chain history may be short of the history limit
StoredHistoryGap == 1
\* highest difficulty level a session of the model is configured with
MaxDifficulty == 2
\* answers submitted to useGameStore in a behaviour
MaxQuestions == 2
\* answers given in one behaviour of a component that keeps its own session
MaxAnswers == 2
\* auto-advance callbacks pending at once
MaxTimers == 1
\* games folded into the aggregates of a store in a behaviour
MaxGames == 2
\* steps of a generated chain: generateChain(ChainMinLength, ChainMaxLength, d)
ChainMinLength == 2
ChainMaxLength == 2
\* entries of the step log of one chain session
MaxStepResults == 3
\* entries of the result log of one divisibility session
MaxProblemResults == 1
\* entries of the result log of a divisibility session that is the only
\* game of its behaviour
MaxOneGameResults == 2
\* problems a divisibility session moves through unless maxProblems ends it
MaxProblemCount == 2
\* largest value chosen for maxProblems
MaxProblemsChoice == 1

-----------------------------------------------------------------------------
(* Helpers *)

null == <<>>
Some(v) == <<v>>
IsNull(x) == x = null
Val(x) == x[1]

Max(a, b) == IF a >= b THEN a ELSE b
Min(a, b) == IF a <= b THEN a ELSE b
Abs(a) == IF a >= 0 THEN a ELSE 0 - a

\* Math.round(n / d) for n >= 0, d > 0: round half up
RoundDiv(n, d) == (2 * n + d) \div (2 * d)

RECURSIVE Pow10(_)
Pow10(n) == IF n <= 0 THEN 1 ELSE 10 * Pow10(n - 1)

RECURSIVE CountIf(_, _)
\* results.filter(pred).length over the sequence of booleans flags
CountIf(flags, i) ==
    IF i = 0 THEN 0
    ELSE CountIf(flags, i - 1) + (IF flags[i] THEN 1 ELSE 0)

RECURSIVE SumSeq(_, _)
SumSeq(s, i) == IF i = 0 THEN 0 ELSE SumSeq(s, i - 1) + s[i]

Difficulties == 1..MaxDifficulty

\* a behaviour drives one store through its actions, in any order, or one
\* component through the handlers its rendering offers; the stores share no
\* state, and page.tsx mounts one game component at a time
Scenarios ==
    {"useGameStore", "MathGame", "PercentageGame", "RatioGame",
     "useChainStore", "useDivisibilityStore"}

\* the engine calls that draw from the whole of every range
WholeRangeCalls == {"generatePercentageProblem over its ranges", "randomInt"}

\* values drawn from a sampled range: by a session, or by an engine
\* function that is called on its own
\* the divisibility store in sessions of several games, and in one game
\* whose result log may grow longer
DivScenarios == {"useDivisibilityStore", "useDivisibilityStore in one game"}

DrawSpan ==
    IF scenario \in Scenarios \cup DivScenarios THEN SampleSpan
    ELSE IF scenario \in WholeRangeCalls THEN WholeRange
    ELSE EngineSpan

\* Math.floor(Math.random() * (max - min + 1)) + min: the values the model
\* draws: DrawSpan of them, taken in turn from the low and the high end of
\* [min, max] (min, max, min + 1, max - 1, ...)
randomInt(min, max) ==
    { n \in { min + i : i \in 0..(((DrawSpan + 1) \div 2) - 1) }
              \cup { max - i : i \in 0..((DrawSpan \div 2) - 1) } :
        n >= min /\ n <= max }

-----------------------------------------------------------------------------
(* mathEngine.ts *)

MATH_DIFFICULTY_CONFIG ==
    << [digits1 |-> 2, digits2 |-> 2],
       [digits1 |-> 2, digits2 |-> 3],
       [digits1 |-> 3, digits2 |-> 3],
       [digits1 |-> 3, digits2 |-> 4],
       [digits1 |-> 4, digits2 |-> 5] >>

\* seeded fault: the upper end is the next power of ten
generateNumberWithDigits_UpToPower(digits) ==
    randomInt(Pow10(digits - 1), Pow10(digits))

generateNumberWithDigits(digits) ==
    randomInt(Pow10(digits - 1), Pow10(digits) - 1)

generateAddition(difficulty) ==
    LET config == MATH_DIFFICULTY_CONFIG[difficulty] IN
    { [operand1 |-> a, operand2 |-> b, operation |-> "addition",
       question |-> <<a, "+", b>>, answer |-> a + b,
       difficulty |-> difficulty] :
        a \in generateNumberWithDigits(config.digits1),
        b \in generateNumberWithDigits(config.digits2) }

\* seeded fault: the sampled values are subtracted in the order drawn
SubtractionProblem_InOrder(difficulty, num1, num2) ==
    [operand1 |-> num1, operand2 |-> num2, operation |-> "subtraction",
     question |-> <<num1, "-", num2>>, answer |-> num1 - num2,
     difficulty |-> difficulty]

\* what generateSubtraction returns once num1 and num2 are sampled
SubtractionProblem(difficulty, num1, num2) ==
    [operand1 |-> Max(num1, num2), operand2 |-> Min(num1, num2),
     operation |-> "subtraction",
     question |-> <<Max(num1, num2), "-", Min(num1, num2)>>,
     answer |-> Max(num1, num2) - Min(num1, num2),
     difficulty |-> difficulty]

generateSubtraction(difficulty) ==
    LET config == MATH_DIFFICULTY_CONFIG[difficulty] IN
    { SubtractionProblem(difficulty, num1, num2) :
        num1 \in generateNumberWithDigits(config.digits1),
        num2 \in generateNumberWithDigits(config.digits2) }

generateProblem(operation, difficulty) ==
    IF operation = "mixed"
    THEN generateAddition(difficulty) \cup generateSubtraction(difficulty)
    ELSE IF operation = "addition" THEN generateAddition(difficulty)
    ELSE generateSubtraction(difficulty)

-----------------------------------------------------------------------------
(* percentageEngine.ts; percentages in hundredths of a percent *)

PERCENTAGE_DIFFICULTY_CONFIG ==
    << [numRange |-> <<10, 45>>, denRange |-> <<50, 100>>,
        allowOver100 |-> FALSE, decimalPlaces |-> 1],
       [numRange |-> <<15, 70>>, denRange |-> <<40, 120>>,
        allowOver100 |-> FALSE, decimalPlaces |-> 1],
       [numRange |-> <<20, 90>>, denRange |-> <<50, 150>>,
        allowOver100 |-> FALSE, decimalPlaces |-> 2],
       [numRange |-> <<30, 180>>, denRange |-> <<60, 200>>,
        allowOver100 |-> TRUE, decimalPlaces |-> 2],
       [numRange |-> <<50, 300>>, denRange |-> <<70, 250>>,
        allowOver100 |-> TRUE, decimalPlaces |-> 2] >>

\* (numerator, denominator, decimalPlaces) for which the exact value of
\* numerator / denominator * 100 * 10^decimalPlaces ends in .5 while its
\* IEEE double evaluation falls just below, so that Math.round rounds down
FloatTieRoundsDown ==
    { <<23, 80, 1>>, <<41, 80, 1>>, <<51, 80, 1>>,
      <<41, 160, 2>>, <<51, 160, 2>>, <<87, 160, 2>>, <<97, 160, 2>>,
      <<169, 160, 2>>, <<179, 160, 2>>, <<189, 160, 2>>, <<199, 160, 2>> }

calculatePercentage(numerator, denominator, decimalPlaces) ==
    LET multiplier == Pow10(decimalPlaces)
        rounded == RoundDiv(numerator * 100 * multiplier, denominator)
                   - (IF <<numerator, denominator, decimalPlaces>>
                           \in FloatTieRoundsDown THEN 1 ELSE 0)
    IN  rounded * (100 \div multiplier)

\* the fractions <<difficulty, numerator, denominator>> whose answers the
\* double comparison of isPercentageCorrect is tabulated for
CheckedFractions ==
    { <<1, n, 81>> : n \in 20..25 } \cup { <<3, n, 81>> : n \in 50..55 }

\* <<userAnswer, correctAnswer>>, in thousandths of a percent, that lie one
\* tolerance apart exactly while the double Math.abs(userAnswer -
\* correctAnswer) comes out above the double tolerance; correctAnswer over
\* the answers of CheckedFractions
FloatDifferenceAboveTolerance ==
    { <<24650, 24700>>, <<24750, 24700>>, <<25950, 25900>>,
      <<27150, 27200>>, <<27250, 27200>>, <<28450, 28400>>,
      <<29550, 29600>>, <<30950, 30900>>, <<61735, 61730>>,
      <<62955, 62960>>, <<62965, 62960>>, <<64195, 64200>>,
      <<65425, 65430>>, <<67895, 67900>> }

\* seeded fault: the tolerance of one decimal place is used for two as well
isPercentageCorrect_OneTolerance(userAnswer, correctAnswer, decimalPlaces) ==
    Abs(userAnswer - correctAnswer) <= 50

\* Math.abs(userAnswer - correctAnswer) <= tolerance in doubles, the two
\* answers in thousandths of a percent; tolerance 0.05 for one decimal place
\* and 0.005 for two. Away from the tolerance the doubles decide as the
\* exact values do
isPercentageCorrect(userAnswer, correctAnswer, decimalPlaces) ==
    LET tolerance == IF decimalPlaces = 1 THEN 50 ELSE 5
        difference == Abs(userAnswer - correctAnswer)
    IN  \/ difference < tolerance
        \/ /\ difference = tolerance
           /\ <<userAnswer, correctAnswer>> \notin FloatDifferenceAboveTolerance

\* seeded fault: small percentages are kept at the lower levels
PercentageRejected_QuartersOnly(percentage, difficulty) ==
    percentage \in {5000, 10000, 2500, 7500}

\* the condition of the do-while loop (calculatePercentage returns neither
\* NaN nor an infinity: the denominator is at least 40)
PercentageRejected(percentage, difficulty) ==
    \/ percentage \in {5000, 10000, 2500, 7500}
    \/ (difficulty < 3 /\ percentage < 1500)

\* the denominators and, for a denominator, the numerators one pass of the
\* do-while loop draws
PercentageDenominators(difficulty) ==
    LET config == PERCENTAGE_DIFFICULTY_CONFIG[difficulty] IN
    randomInt(config.denRange[1], config.denRange[2])

\* the arguments of the call that draws the numerator: the whole numRange,
\* or numRange capped at maxNum = Math.min(numRange[1], denominator - 1)
PercentageNumeratorRange(difficulty, denominator) ==
    LET config == PERCENTAGE_DIFFICULTY_CONFIG[difficulty] IN
    IF config.allowOver100
    THEN [min |-> config.numRange[1], max |-> config.numRange[2]]
    ELSE [min |-> config.numRange[1],
          max |-> Min(config.numRange[2], denominator - 1)]

PercentageNumerators(difficulty, denominator) ==
    LET range == PercentageNumeratorRange(difficulty, denominator) IN
    randomInt(range.min, range.max)

\* the problem returned for the last numerator and denominator drawn
PercentageProblem(difficulty, numerator, denominator) ==
    LET config == PERCENTAGE_DIFFICULTY_CONFIG[difficulty] IN
    [numerator |-> numerator, denominator |-> denominator,
     question |-> <<numerator, "/", denominator>>,
     answer |-> calculatePercentage(numerator, denominator,
                                    config.decimalPlaces),
     difficulty |-> difficulty,
     decimalPlaces |-> config.decimalPlaces]

\* the problems the do-while loop can leave with
generatePercentageProblem(difficulty) ==
    { p \in
        UNION { { PercentageProblem(difficulty, numerator, denominator) :
                  numerator \in
                    PercentageNumerators(difficulty, denominator) } :
                denominator \in PercentageDenominators(difficulty) } :
        ~PercentageRejected(p.answer, difficulty) }

-----------------------------------------------------------------------------
(* ratioEngine.ts; minDiffPercent and maxDiffPercent in tenths of a percent *)

RATIO_DIFFICULTY_CONFIG ==
    << [numRange |-> <<10, 50>>, denRange |-> <<20, 80>>,
        minDiffPercent |-> 150, maxDiffPercent |-> 400],
       [numRange |-> <<15, 80>>, denRange |-> <<30, 120>>,
        minDiffPercent |-> 80, maxDiffPercent |-> 150],
       [numRange |-> <<20, 120>>, denRange |-> <<40, 180>>,
        minDiffPercent |-> 40, maxDiffPercent |-> 80],
       [numRange |-> <<50, 200>>, denRange |-> <<80, 250>>,
        minDiffPercent |-> 20, maxDiffPercent |-> 40],
       [numRange |-> <<100, 300>>, denRange |-> <<120, 350>>,
        minDiffPercent |-> 5, maxDiffPercent |-> 20] >>

\* value = numerator / denominator is compared by cross-multiplication;
\* display is the pair itself
createRatio(numerator, denominator) ==
    [numerator |-> numerator, denominator |-> denominator]

ValueGreater(r1, r2) ==
    r1.numerator * r2.denominator > r2.numerator * r1.denominator

ValueEqual(r1, r2) ==
    r1.numerator * r2.denominator = r2.numerator * r1.denominator

\* getPercentageDifference(ratio1, ratio2) lies within [lo, hi] tenths of a
\* percent: (larger - smaller) / smaller * 100
PercentageDifferenceWithin(ratio1, ratio2, lo, hi) ==
    LET x == ratio1.numerator * ratio2.denominator
        y == ratio2.numerator * ratio1.denominator
        larger == Max(x, y)
        smaller == Min(x, y)
    IN  /\ 1000 * (larger - smaller) >= lo * smaller
        /\ 1000 * (larger - smaller) <= hi * smaller

\* the second ratio one attempt of the loop can build for the first one
RatioCandidates(difficulty, num1, den1) ==
    LET config == RATIO_DIFFICULTY_CONFIG[difficulty]
        fresh == { createRatio(n, d) :
                     n \in randomInt(config.numRange[1], config.numRange[2]),
                     d \in randomInt(config.denRange[1], config.denRange[2]) }
        targeted(sign, k, den2) ==
            LET num2 == RoundDiv((1000 * num1 + sign * k * den1) * den2,
                                 1000 * den1)
            IN  IF num2 > 0 /\ num2 < den2 * 2
                THEN { createRatio(num2, den2) }
                ELSE fresh
    IN  IF difficulty >= 4
        THEN UNION { targeted(sign, k, den2) :
                       sign \in {1, -1},
                       k \in randomInt(config.minDiffPercent,
                                       config.maxDiffPercent),
                       den2 \in randomInt(config.denRange[1],
                                          config.denRange[2]) }
        ELSE fresh

\* attempts of the do-while loop of generateRatioComparison
maxAttempts == 100

\* seeded fault: a pair is accepted without the lower limit on its difference
RatioAccepted_NoLowerLimit(difficulty, ratioA, ratioB) ==
    LET config == RATIO_DIFFICULTY_CONFIG[difficulty] IN
    /\ PercentageDifferenceWithin(ratioA, ratioB, 0, config.maxDiffPercent)
    /\ ~ValueEqual(ratioA, ratioB)
    /\ ratioA # ratioB

\* the exit condition of the loop, attempts aside; a difference that lies on
\* a limit exactly counts as within: its double may fall on either side
RatioAccepted(difficulty, ratioA, ratioB) ==
    LET config == RATIO_DIFFICULTY_CONFIG[difficulty] IN
    /\ PercentageDifferenceWithin(ratioA, ratioB, config.minDiffPercent,
                                  config.maxDiffPercent)
    /\ ~ValueEqual(ratioA, ratioB)
    /\ ratioA # ratioB

\* (numerator, difficulty) for which numerator * (1 + minDiffPercent / 100)
\* ends in .5 exactly while its IEEE double evaluation falls just below
FloatAdjustRoundsDown ==
    { <<50, 1>>, <<90, 1>>, <<110, 1>>, <<170, 1>>, <<190, 1>>, <<210, 1>>,
      <<100, 5>>, <<300, 5>> }

\* the fallback pair: Math.round(ratioA.numerator * adjustment) over
\* ratioA.denominator
RatioFallback(difficulty, ratioA) ==
    LET config == RATIO_DIFFICULTY_CONFIG[difficulty]
        scaled == RoundDiv(ratioA.numerator * (1000 + config.minDiffPercent),
                           1000)
                  - (IF <<ratioA.numerator, difficulty>>
                          \in FloatAdjustRoundsDown THEN 1 ELSE 0)
    IN  createRatio(scaled, ratioA.denominator)

RatioProblem(difficulty, ratioA, ratioB) ==
    [ratioA |-> ratioA, ratioB |-> ratioB,
     correctAnswer |-> IF ValueGreater(ratioA, ratioB) THEN "A" ELSE "B",
     difficulty |-> difficulty]

\* the problems generateRatioComparison can return: a pair accepted before
\* the last attempt, or the fallback pair built on the first ratio of the
\* last attempt; either one possibly swapped
generateRatioComparison(difficulty) ==
    LET config == RATIO_DIFFICULTY_CONFIG[difficulty]
        firsts == { createRatio(n, d) :
                      n \in randomInt(config.numRange[1], config.numRange[2]),
                      d \in randomInt(config.denRange[1], config.denRange[2]) }
        accepted == UNION { { <<a, b>> :
                                b \in { c \in RatioCandidates(difficulty,
                                              a.numerator, a.denominator) :
                                          RatioAccepted(difficulty, a, c) } } :
                            a \in firsts }
        fallback == { <<a, RatioFallback(difficulty, a)>> : a \in firsts }
        pairs == accepted \cup fallback
    IN  { RatioProblem(difficulty, pr[1], pr[2]) : pr \in pairs }
        \cup { RatioProblem(difficulty, pr[2], pr[1]) : pr \in pairs }

-----------------------------------------------------------------------------
(* chainEngine.ts *)

chainDifficultyRanges ==
    << [startingNumbers |-> [min |-> 10, max |-> 50],
        addendProgression |-> << [min |-> 10, max |-> 30],
                                 [min |-> 20, max |-> 50],
                                 [min |-> 30, max |-> 70],
                                 [min |-> 40, max |-> 99] >>],
       [startingNumbers |-> [min |-> 20, max |-> 99],
        addendProgression |-> << [min |-> 20, max |-> 60],
                                 [min |-> 50, max |-> 150],
                                 [min |-> 100, max |-> 300],
                                 [min |-> 200, max |-> 500] >>],
       [startingNumbers |-> [min |-> 50, max |-> 200],
        addendProgression |-> << [min |-> 50, max |-> 150],
                                 [min |-> 100, max |-> 400],
                                 [min |-> 300, max |-> 700],
                                 [min |-> 500, max |-> 999] >>],
       [startingNumbers |-> [min |-> 100, max |-> 500],
        addendProgression |-> << [min |-> 100, max |-> 400],
                                 [min |-> 300, max |-> 800],
                                 [min |-> 500, max |-> 1500],
                                 [min |-> 1000, max |-> 3000] >>],
       [startingNumbers |-> [min |-> 200, max |-> 999],
        addendProgression |-> << [min |-> 200, max |-> 600],
                                 [min |-> 500, max |-> 1500],
                                 [min |-> 1000, max |-> 5000],
                                 [min |-> 3000, max |-> 9999] >>] >>

\* seeded fault: the third band kept for every step after the tenth
getAddendRange_ThreeBands(stepNumber, difficulty) ==
    LET ranges == chainDifficultyRanges[difficulty].addendProgression IN
    IF stepNumber <= 5 THEN ranges[1]
    ELSE IF stepNumber <= 10 THEN ranges[2]
    ELSE ranges[3]

getAddendRange(stepNumber, difficulty) ==
    LET ranges == chainDifficultyRanges[difficulty].addendProgression IN
    IF stepNumber <= 5 THEN ranges[1]
    ELSE IF stepNumber <= 10 THEN ranges[2]
    ELSE IF stepNumber <= 15 THEN ranges[3]
    ELSE ranges[4]

generateStartingPair(difficulty) ==
    LET range == chainDifficultyRanges[difficulty].startingNumbers IN
    { [first |-> f, second |-> s] :
        f \in randomInt(range.min, range.max),
        s \in randomInt(range.min, range.max) }

RECURSIVE ChainSteps(_, _)
\* the step lists the loop of generateChain can build for a total length
\* (the display string of a step is left out)
ChainSteps(totalLength, difficulty) ==
    IF totalLength <= 1
    THEN { << [stepNumber |-> 1, previousResult |-> p.first,
               addend |-> p.second, result |-> p.first + p.second] >> :
             p \in generateStartingPair(difficulty) }
    ELSE LET addendRange == getAddendRange(totalLength, difficulty) IN
         { Append(steps,
                  [stepNumber |-> totalLength,
                   previousResult |-> steps[Len(steps)].result,
                   addend |-> addend,
                   result |-> steps[Len(steps)].result + addend]) :
             steps \in ChainSteps(totalLength - 1, difficulty),
             addend \in randomInt(addendRange.min, addendRange.max) }

\* seeded fault: finalResult taken from the first step
generateChain_FirstResult(config) ==
    UNION { { [steps |-> steps, totalLength |-> totalLength,
               finalResult |-> steps[1].result,
               difficulty |-> config.difficulty] :
              steps \in ChainSteps(totalLength, config.difficulty) } :
            totalLength \in randomInt(config.minLength, config.maxLength) }

generateChain(config) ==
    UNION { { [steps |-> steps, totalLength |-> totalLength,
               finalResult |-> steps[Len(steps)].result,
               difficulty |-> config.difficulty] :
              steps \in ChainSteps(totalLength, config.difficulty) } :
            totalLength \in randomInt(config.minLength, config.maxLength) }

\* generateChain({ minLength: 10, maxLength: 20, difficulty }) in the source;
\* the model generates chains of ChainMinLength..ChainMaxLength steps
generateDefaultChain(difficulty) ==
    generateChain([minLength |-> ChainMinLength, maxLength |-> ChainMaxLength,
                   difficulty |-> difficulty])

\* the averages, in milliseconds per step, for which
\* (5 - averageTimePerStep) * 10 ends in .5 exactly while its IEEE double
\* evaluation falls just below; at every other average the doubles round as
\* the exact value does
FloatSpeedRoundsDown == {3450, 3950, 4150, 4450, 4650, 4950}

\* seeded fault: no speed bonus is given when nothing was answered
calculateChainStats_SpeedNeedsSteps(totalSteps, correctSteps, totalTimeMs, completed) ==
    [totalSteps |-> totalSteps, correctSteps |-> correctSteps,
     accuracy |-> IF totalSteps > 0
                  THEN RoundDiv(100 * correctSteps, totalSteps) ELSE 0,
     averageTimePerStep |-> IF totalSteps > 0
                            THEN RoundDiv(totalTimeMs, 100 * totalSteps)
                            ELSE 0,
     completed |-> completed,
     finalScore |->
         correctSteps * 10
         + (IF totalSteps > 0
            THEN RoundDiv(200 * correctSteps, totalSteps) ELSE 0)
         + (IF totalSteps > 0 /\ totalTimeMs < 5000 * totalSteps
            THEN RoundDiv(5000 * totalSteps - totalTimeMs, 100 * totalSteps)
                 - (IF \E a \in FloatSpeedRoundsDown :
                          totalTimeMs = a * totalSteps
                    THEN 1 ELSE 0)
            ELSE 0)
         + (IF completed THEN 50 ELSE 0)]

\* accuracy in percent, averageTimePerStep in tenths of a second; the
\* roundings are those of the doubles for up to 39 steps
calculateChainStats(totalSteps, correctSteps, totalTimeMs, completed) ==
    LET basePoints == correctSteps * 10
        accuracyBonus == IF totalSteps > 0
                         THEN RoundDiv(200 * correctSteps, totalSteps) ELSE 0
        speedBonus ==
            IF totalSteps > 0
            THEN IF totalTimeMs < 5000 * totalSteps
                 THEN RoundDiv(5000 * totalSteps - totalTimeMs,
                               100 * totalSteps)
                      - (IF \E a \in FloatSpeedRoundsDown :
                               totalTimeMs = a * totalSteps
                         THEN 1 ELSE 0)
                 ELSE 0
            ELSE 50
        completionBonus == IF completed THEN 50 ELSE 0
    IN  [totalSteps |-> totalSteps,
         correctSteps |-> correctSteps,
         accuracy |-> IF totalSteps > 0
                      THEN RoundDiv(100 * correctSteps, totalSteps) ELSE 0,
         averageTimePerStep |-> IF totalSteps > 0
                                THEN RoundDiv(totalTimeMs, 100 * totalSteps)
                                ELSE 0,
         completed |-> completed,
         finalScore |-> basePoints + accuracyBonus + speedBonus
                        + completionBonus]

-----------------------------------------------------------------------------
(* divisibilityEngine.ts *)

divisibilityDifficultyRanges ==
    << [dividendRange |-> [min |-> 10, max |-> 50],
        divisorRange |-> [min |-> 2, max |-> 5]],
       [dividendRange |-> [min |-> 20, max |-> 99],
        divisorRange |-> [min |-> 2, max |-> 9]],
       [dividendRange |-> [min |-> 50, max |-> 200],
        divisorRange |-> [min |-> 3, max |-> 12]],
       [dividendRange |-> [min |-> 100, max |-> 500],
        divisorRange |-> [min |-> 5, max |-> 25]],
       [dividendRange |-> [min |-> 200, max |-> 999],
        divisorRange |-> [min |-> 7, max |-> 50]] >>

\* Math.ceil(a / b) for a >= 0, b > 0
CeilDiv(a, b) == (a + b - 1) \div b

\* the arguments of the call that draws the quotient:
\* Math.max(2, minQuotient) and Math.max(3, maxQuotient)
QuotientRange(difficulty, divisor) ==
    LET config == divisibilityDifficultyRanges[difficulty]
        minQuotient == CeilDiv(config.dividendRange.min, divisor)
        maxQuotient == config.dividendRange.max \div divisor
    IN  [min |-> Max(2, minQuotient), max |-> Max(3, maxQuotient)]

generateExactDivisibilityProblem(difficulty) ==
    LET config == divisibilityDifficultyRanges[difficulty] IN
    UNION { LET range == QuotientRange(difficulty, divisor)
            IN  { [dividend |-> quotient * divisor, divisor |-> divisor,
                   quotient |-> quotient, remainder |-> 0,
                   negativeRemainder |-> 0, isDivisible |-> TRUE,
                   difficulty |-> difficulty] :
                  quotient \in randomInt(range.min, range.max) } :
            divisor \in randomInt(config.divisorRange.min,
                                  config.divisorRange.max) }

\* draws of the do-while loop of generateRemainderProblem: attempts < 50
RemainderMaxAttempts == 50

\* seeded fault: a loop that only ends with a dividend that is not divisible
RemainderLoopContinues_Unbounded(dividend, divisor, attempts) ==
    dividend % divisor = 0

\* while (dividend % divisor === 0 && attempts < 50)
RemainderLoopContinues(dividend, divisor, attempts) ==
    dividend % divisor = 0 /\ attempts < RemainderMaxAttempts

\* seeded fault: an offset drawn from [0, divisor - 1]
AdjustedDividends_FromZero(dividend, divisor) ==
    { dividend + offset : offset \in randomInt(0, divisor - 1) }

\* seeded fault: the offset stops one short of divisor - 1
OffsetRange_StopsShort(divisor) == [min |-> 1, max |-> divisor - 2]

\* the arguments of the call that draws the offset: 1 and divisor - 1
OffsetRange(divisor) == [min |-> 1, max |-> divisor - 1]

\* dividend += randomInt(1, divisor - 1)
AdjustedDividends(dividend, divisor) ==
    LET range == OffsetRange(divisor) IN
    { dividend + offset : offset \in randomInt(range.min, range.max) }

\* the dividends the do-while loop and the adjustment after it can end with:
\* a draw that is not divisible, or, after 50 divisible draws, the last draw
\* plus an offset in [1, divisor - 1]
RemainderDividends(difficulty, divisor) ==
    LET config == divisibilityDifficultyRanges[difficulty]
        draws == randomInt(config.dividendRange.min, config.dividendRange.max)
    IN  { d \in draws : d % divisor # 0 }
        \cup UNION { AdjustedDividends(d, divisor) :
                     d \in { e \in draws : e % divisor = 0 } }

\* the problem generateRemainderProblem returns for a divisor and a dividend
RemainderProblem(difficulty, divisor, dividend) ==
    [dividend |-> dividend, divisor |-> divisor,
     quotient |-> dividend \div divisor,
     remainder |-> dividend % divisor,
     negativeRemainder |-> IF dividend % divisor > 0
                           THEN (dividend % divisor) - divisor
                           ELSE 0,
     isDivisible |-> FALSE,
     difficulty |-> difficulty]

generateRemainderProblem(difficulty) ==
    LET config == divisibilityDifficultyRanges[difficulty] IN
    UNION { { RemainderProblem(difficulty, divisor, dividend) :
              dividend \in RemainderDividends(difficulty, divisor) } :
            divisor \in randomInt(config.divisorRange.min,
                                  config.divisorRange.max) }

generateDivisibilityProblem(config) ==
    IF config.includeExactDivisibility
    THEN generateExactDivisibilityProblem(config.difficulty)
         \cup generateRemainderProblem(config.difficulty)
    ELSE generateRemainderProblem(config.difficulty)

generateDefaultProblem(difficulty) ==
    generateDivisibilityProblem([difficulty |-> difficulty,
                                 remainderType |-> "positive",
                                 includeExactDivisibility |-> TRUE])

validateDivisibilityAnswer(problem, userSaidDivisible) ==
    userSaidDivisible = problem.isDivisible

\* seeded fault: the negative remainder is accepted whatever the setting
validateRemainderAnswer_AnyConvention(problem, userRemainder, acceptNegative) ==
    \/ (problem.isDivisible /\ userRemainder = 0)
    \/ userRemainder = problem.remainder
    \/ userRemainder = problem.negativeRemainder

validateRemainderAnswer(problem, userRemainder, acceptNegative) ==
    \/ (problem.isDivisible /\ userRemainder = 0)
    \/ userRemainder = problem.remainder
    \/ (acceptNegative /\ userRemainder = problem.negativeRemainder)

-----------------------------------------------------------------------------
(* store.ts: useGameStore *)

\* averageTime is the fraction <<sum of sessionTimes, count>>; times in ms
initialStats ==
    [totalQuestions |-> 0, correctAnswers |-> 0, currentStreak |-> 0,
     bestStreak |-> 0, averageTime |-> <<0, 1>>, sessionTimes |-> <<>>]

GameModes == {"addition", "subtraction", "percentage", "ratio"}

useGameStoreInit ==
    [mode |-> "addition", difficulty |-> 1, isPlaying |-> FALSE,
     currentQuestion |-> null, currentAnswer |-> null,
     questionStartTime |-> null, stats |-> initialStats]

gameStartGame(state, t) ==
    [state EXCEPT !.isPlaying = TRUE, !.questionStartTime = Some(t)]

gameEndGame(state) ==
    [state EXCEPT !.isPlaying = FALSE, !.currentQuestion = null,
                  !.currentAnswer = null, !.questionStartTime = null]

gameSetQuestion(state, question, answer, t) ==
    [state EXCEPT !.currentQuestion = Some(question),
                  !.currentAnswer = Some(answer),
                  !.questionStartTime = Some(t)]

gameIsCorrect(state, userAnswer) == state.currentAnswer = Some(userAnswer)

\* seeded fault: bestStreak overwritten by the new streak
gameBestStreak_Latest(bestStreak, newCurrentStreak) == newCurrentStreak

gameBestStreak(bestStreak, newCurrentStreak) ==
    Max(bestStreak, newCurrentStreak)

\* seeded fault: the streak kept on an incorrect answer
gameNewCurrentStreak_KeptOnWrong(isCorrect, currentStreak) ==
    IF isCorrect THEN currentStreak + 1 ELSE currentStreak

gameNewCurrentStreak(isCorrect, currentStreak) ==
    IF isCorrect THEN currentStreak + 1 ELSE 0

gameSubmitAnswer(state, userAnswer, t) ==
    LET isCorrect == gameIsCorrect(state, userAnswer)
        timeTaken == IF ~IsNull(state.questionStartTime)
                     THEN t - Val(state.questionStartTime) ELSE 0
        s == state.stats
        newSessionTimes == Append(s.sessionTimes, timeTaken)
        newCurrentStreak == gameNewCurrentStreak(isCorrect, s.currentStreak)
    IN  [state EXCEPT !.stats =
            [totalQuestions |-> s.totalQuestions + 1,
             correctAnswers |-> s.correctAnswers + (IF isCorrect THEN 1 ELSE 0),
             currentStreak |-> newCurrentStreak,
             bestStreak |-> gameBestStreak(s.bestStreak, newCurrentStreak),
             averageTime |-> <<SumSeq(newSessionTimes, Len(newSessionTimes)),
                               Len(newSessionTimes)>>,
             sessionTimes |-> newSessionTimes]]

\* seeded fault: a reset of the statistics that keeps the best streak
gameResetStats_KeepsBest(state) == [state EXCEPT !.stats = [initialStats EXCEPT !.bestStreak = state.stats.bestStreak]]

gameResetStats(state) == [state EXCEPT !.stats = initialStats]

\* every variable that belongs to another mode than the mounted one
MathFrame ==
    UNCHANGED <<scenario, PercentageGame, RatioGame, useChainStore,
                chainEffect, useDivisibilityStore, sessionFolds, call>>

useGameStore_setMode ==
    /\ scenario = "useGameStore"
    /\ \E mode \in GameModes :
          useGameStore' = [useGameStore EXCEPT !.mode = mode]
    /\ ret' = null
    /\ UNCHANGED <<now, MathGame, timers>> /\ MathFrame

useGameStore_setDifficulty ==
    /\ scenario = "useGameStore"
    /\ \E difficulty \in Difficulties :
          useGameStore' = [useGameStore EXCEPT !.difficulty = difficulty]
    /\ ret' = null
    /\ UNCHANGED <<now, MathGame, timers>> /\ MathFrame

useGameStore_startGame ==
    /\ scenario = "useGameStore"
    /\ useGameStore' = gameStartGame(useGameStore, now)
    /\ ret' = null
    /\ UNCHANGED <<now, MathGame, timers>> /\ MathFrame

useGameStore_endGame ==
    /\ scenario = "useGameStore"
    /\ useGameStore' = gameEndGame(useGameStore)
    /\ ret' = null
    /\ UNCHANGED <<now, MathGame, timers>> /\ MathFrame

useGameStore_setQuestion ==
    /\ scenario = "useGameStore"
    /\ \E problem \in generateProblem("mixed", useGameStore.difficulty) :
          useGameStore' = gameSetQuestion(useGameStore, problem.question,
                                          problem.answer, now)
    /\ ret' = null
    /\ UNCHANGED <<now, MathGame, timers>> /\ MathFrame

\* the answers a user gives to a question whose answer is correct (null when
\* there is no question): the right one and two wrong ones
IntegerAnswers(correct) ==
    (IF IsNull(correct) THEN {} ELSE {Val(correct), Val(correct) + 1}) \cup {0}

useGameStore_submitAnswer ==
    /\ scenario = "useGameStore"
    /\ useGameStore.stats.totalQuestions < MaxQuestions
    /\ \E userAnswer \in IntegerAnswers(useGameStore.currentAnswer) :
          /\ useGameStore' = gameSubmitAnswer(useGameStore, userAnswer, now)
          /\ ret' = Some(gameIsCorrect(useGameStore, userAnswer))
    /\ UNCHANGED <<now, MathGame, timers>> /\ MathFrame

useGameStore_resetStats ==
    /\ scenario = "useGameStore"
    /\ useGameStore' = gameResetStats(useGameStore)
    /\ ret' = null
    /\ UNCHANGED <<now, MathGame, timers>> /\ MathFrame

-----------------------------------------------------------------------------
(* MathGame component *)

MathGameInit ==
    [isPlaying |-> FALSE, problem |-> null, feedbackState |-> "neutral",
     operation |-> "mixed", questionCount |-> 0, sessionCorrect |-> 0,
     startTime |-> null]

\* a pending setTimeout callback: the generateNewProblem closure of the render
\* that scheduled it, with the operation and difficulty it captured
Timeout(component, operation, difficulty) ==
    [component |-> component, operation |-> operation,
     difficulty |-> difficulty]

RemoveAt(s, i) == SubSeq(s, 1, i - 1) \o SubSeq(s, i + 1, Len(s))

\* generateNewProblem of MathGame: setProblem(newProblem), neutral feedback
mathGenerateNewProblem(state, newProblem) ==
    [state EXCEPT !.problem = Some(newProblem), !.feedbackState = "neutral"]

\* "Start Practice" button or Enter, offered while not playing
MathGame_startGame ==
    /\ scenario = "MathGame"
    /\ ~MathGame.isPlaying
    /\ \E newProblem \in generateProblem(MathGame.operation,
                                         useGameStore.difficulty) :
          MathGame' = mathGenerateNewProblem(
                        [MathGame EXCEPT !.isPlaying = TRUE,
                                         !.questionCount = 0,
                                         !.sessionCorrect = 0,
                                         !.startTime = Some(now)],
                        newProblem)
    /\ ret' = null
    /\ UNCHANGED <<now, useGameStore, timers>> /\ MathFrame

\* resetGame with the pending timeouts left as they are: the source never
\* calls clearTimeout
mathResetGame(state) ==
    [state EXCEPT !.isPlaying = FALSE, !.problem = null,
                  !.feedbackState = "neutral", !.questionCount = 0,
                  !.sessionCorrect = 0, !.startTime = null]

\* "End Session" button or Escape, offered while playing
MathGame_resetGame ==
    /\ scenario = "MathGame"
    /\ MathGame.isPlaying
    /\ MathGame' = mathResetGame(MathGame)
    /\ ret' = null
    /\ UNCHANGED <<now, useGameStore, timers>> /\ MathFrame

\* AnswerInput.onSubmit: rendered while playing, disabled unless the feedback
\* is neutral
MathGame_handleAnswer ==
    /\ scenario = "MathGame"
    /\ MathGame.isPlaying
    /\ MathGame.feedbackState = "neutral"
    /\ ~IsNull(MathGame.problem)
    /\ useGameStore.stats.totalQuestions < MaxQuestions
    /\ Len(timers) < MaxTimers
    /\ LET problem == Val(MathGame.problem) IN
       \E answer \in IntegerAnswers(Some(problem.answer)) :
          LET isCorrect == answer = problem.answer
              asked == gameSetQuestion(useGameStore, problem.question,
                                       problem.answer, now)
          IN  /\ MathGame' =
                    [MathGame EXCEPT
                       !.feedbackState =
                           IF isCorrect THEN "correct" ELSE "incorrect",
                       !.questionCount = @ + 1,
                       !.sessionCorrect = IF isCorrect THEN @ + 1 ELSE @]
              /\ useGameStore' = gameSubmitAnswer(asked, answer, now)
              /\ ret' = Some(gameIsCorrect(asked, answer))
    /\ timers' = Append(timers, Timeout("MathGame", MathGame.operation,
                                        useGameStore.difficulty))
    /\ UNCHANGED now /\ MathFrame

\* operation selector of the setup screen
MathGame_setOperation ==
    /\ scenario = "MathGame"
    /\ ~MathGame.isPlaying
    /\ \E op \in {"addition", "subtraction", "mixed"} :
          MathGame' = [MathGame EXCEPT !.operation = op]
    /\ ret' = null
    /\ UNCHANGED <<now, useGameStore, timers>> /\ MathFrame

\* difficulty buttons of the setup screen, disabled at levels 1 and 5
MathGame_adjustDifficulty ==
    /\ scenario = "MathGame"
    /\ ~MathGame.isPlaying
    /\ \E delta \in {1, -1} :
          LET newDiff == Max(1, Min(5, useGameStore.difficulty + delta)) IN
          /\ newDiff \in Difficulties /\ newDiff # useGameStore.difficulty
          /\ useGameStore' = [useGameStore EXCEPT !.difficulty = newDiff]
    /\ ret' = null
    /\ UNCHANGED <<now, MathGame, timers>> /\ MathFrame

\* a pending auto-advance timeout of MathGame fires
MathGame_timeout ==
    /\ scenario = "MathGame"
    /\ \E i \in 1..Len(timers) :
          /\ timers[i].component = "MathGame"
          /\ \E newProblem \in generateProblem(timers[i].operation,
                                               timers[i].difficulty) :
                MathGame' = mathGenerateNewProblem(MathGame, newProblem)
          /\ timers' = RemoveAt(timers, i)
    /\ ret' = null
    /\ UNCHANGED <<now, useGameStore>> /\ MathFrame

-----------------------------------------------------------------------------
(* PercentageGame component *)

PercentageGameInit ==
    [isPlaying |-> FALSE, difficulty |-> 1, problem |-> null,
     feedbackState |-> "neutral", questionCount |-> 0, sessionCorrect |-> 0,
     currentStreak |-> 0, startTime |-> null]

PercentFrame ==
    UNCHANGED <<scenario, useGameStore, MathGame, RatioGame, useChainStore,
                chainEffect, useDivisibilityStore, sessionFolds, call>>

\* generateNewProblem: setProblem, neutral feedback (and an empty input)
localGenerateNewProblem(state, newProblem) ==
    [state EXCEPT !.problem = Some(newProblem), !.feedbackState = "neutral"]

\* startGame of PercentageGame and RatioGame, before generateNewProblem
localStartGame(state, t) ==
    [state EXCEPT !.isPlaying = TRUE, !.questionCount = 0,
                  !.sessionCorrect = 0, !.currentStreak = 0,
                  !.startTime = Some(t)]

PercentageGame_startGame ==
    /\ scenario = "PercentageGame"
    /\ ~PercentageGame.isPlaying
    /\ \E newProblem \in generatePercentageProblem(PercentageGame.difficulty) :
          PercentageGame' =
              localGenerateNewProblem(localStartGame(PercentageGame, now),
                                      newProblem)
    /\ ret' = null
    /\ UNCHANGED <<now, timers>> /\ PercentFrame

percentageResetGame(state) ==
    [state EXCEPT !.isPlaying = FALSE, !.problem = null,
                  !.feedbackState = "neutral", !.questionCount = 0,
                  !.sessionCorrect = 0, !.currentStreak = 0,
                  !.startTime = null]

PercentageGame_resetGame ==
    /\ scenario = "PercentageGame"
    /\ PercentageGame.isPlaying
    /\ PercentageGame' = percentageResetGame(PercentageGame)
    /\ ret' = null
    /\ UNCHANGED <<now, timers>> /\ PercentFrame

\* setCurrentStreak((c) => c + 1) on a correct answer, setCurrentStreak(0)
\* otherwise
localNewStreak(isCorrect, currentStreak) ==
    IF isCorrect THEN currentStreak + 1 ELSE 0

localHandleAnswer(state, isCorrect) ==
    [state EXCEPT
       !.feedbackState = IF isCorrect THEN "correct" ELSE "incorrect",
       !.questionCount = @ + 1,
       !.sessionCorrect = IF isCorrect THEN @ + 1 ELSE @,
       !.currentStreak = localNewStreak(isCorrect, @)]

\* the values typed for a percentage problem, in hundredths: the answer, one
\* 0.04 above it and one a whole percent above it
PercentageAnswers(problem) ==
    {problem.answer, problem.answer + 4, problem.answer + 100}

\* Enter in the input, which is disabled unless the feedback is neutral
PercentageGame_handleAnswer ==
    /\ scenario = "PercentageGame"
    /\ PercentageGame.isPlaying
    /\ PercentageGame.feedbackState = "neutral"
    /\ ~IsNull(PercentageGame.problem)
    /\ PercentageGame.questionCount < MaxAnswers
    /\ Len(timers) < MaxTimers
    /\ LET problem == Val(PercentageGame.problem) IN
       \E userAnswer \in PercentageAnswers(problem) :
          LET isCorrect == isPercentageCorrect(10 * userAnswer,
                                               10 * problem.answer,
                                               problem.decimalPlaces)
          IN  /\ PercentageGame' = localHandleAnswer(PercentageGame, isCorrect)
              /\ ret' = Some(isCorrect)
    /\ timers' = Append(timers, Timeout("PercentageGame", "none",
                                        PercentageGame.difficulty))
    /\ UNCHANGED now /\ PercentFrame

\* difficulty buttons of the setup screen, disabled at levels 1 and 5
PercentageGame_adjustDifficulty ==
    /\ scenario = "PercentageGame"
    /\ ~PercentageGame.isPlaying
    /\ \E delta \in {1, -1} :
          LET newDiff == Max(1, Min(5, PercentageGame.difficulty + delta)) IN
          /\ newDiff \in Difficulties /\ newDiff # PercentageGame.difficulty
          /\ PercentageGame' = [PercentageGame EXCEPT !.difficulty = newDiff]
    /\ ret' = null
    /\ UNCHANGED <<now, timers>> /\ PercentFrame

PercentageGame_timeout ==
    /\ scenario = "PercentageGame"
    /\ \E i \in 1..Len(timers) :
          /\ timers[i].component = "PercentageGame"
          /\ \E newProblem \in generatePercentageProblem(timers[i].difficulty) :
                PercentageGame' =
                    localGenerateNewProblem(PercentageGame, newProblem)
          /\ timers' = RemoveAt(timers, i)
    /\ ret' = null
    /\ UNCHANGED now /\ PercentFrame

-----------------------------------------------------------------------------
(* RatioGame component *)

RatioGameInit ==
    [isPlaying |-> FALSE, difficulty |-> 1, problem |-> null,
     feedbackState |-> "neutral", selectedAnswer |-> null,
     questionCount |-> 0, sessionCorrect |-> 0, currentStreak |-> 0,
     startTime |-> null]

RatioFrame ==
    UNCHANGED <<scenario, useGameStore, MathGame, PercentageGame,
                useChainStore, chainEffect, useDivisibilityStore,
                sessionFolds, call>>

ratioGenerateNewProblem(state, newProblem) ==
    [localGenerateNewProblem(state, newProblem) EXCEPT
       !.selectedAnswer = null]

RatioGame_startGame ==
    /\ scenario = "RatioGame"
    /\ ~RatioGame.isPlaying
    /\ \E newProblem \in generateRatioComparison(RatioGame.difficulty) :
          RatioGame' = ratioGenerateNewProblem(localStartGame(RatioGame, now),
                                               newProblem)
    /\ ret' = null
    /\ UNCHANGED <<now, timers>> /\ RatioFrame

ratioResetGame(state) ==
    [state EXCEPT !.isPlaying = FALSE, !.problem = null,
                  !.feedbackState = "neutral", !.selectedAnswer = null,
                  !.questionCount = 0, !.sessionCorrect = 0,
                  !.currentStreak = 0, !.startTime = null]

RatioGame_resetGame ==
    /\ scenario = "RatioGame"
    /\ RatioGame.isPlaying
    /\ RatioGame' = ratioResetGame(RatioGame)
    /\ ret' = null
    /\ UNCHANGED <<now, timers>> /\ RatioFrame

RatioGame_handleAnswer ==
    /\ scenario = "RatioGame"
    /\ RatioGame.isPlaying
    /\ ~IsNull(RatioGame.problem)
    /\ RatioGame.feedbackState = "neutral"
    /\ RatioGame.questionCount < MaxAnswers
    /\ Len(timers) < MaxTimers
    /\ \E answer \in {"A", "B"} :
          LET isCorrect == answer = Val(RatioGame.problem).correctAnswer IN
          /\ RatioGame' = [localHandleAnswer(RatioGame, isCorrect) EXCEPT
                             !.selectedAnswer = Some(answer)]
          /\ ret' = Some(isCorrect)
    /\ timers' = Append(timers, Timeout("RatioGame", "none",
                                        RatioGame.difficulty))
    /\ UNCHANGED now /\ RatioFrame

RatioGame_adjustDifficulty ==
    /\ scenario = "RatioGame"
    /\ ~RatioGame.isPlaying
    /\ \E delta \in {1, -1} :
          LET newDiff == Max(1, Min(5, RatioGame.difficulty + delta)) IN
          /\ newDiff \in Difficulties /\ newDiff # RatioGame.difficulty
          /\ RatioGame' = [RatioGame EXCEPT !.difficulty = newDiff]
    /\ ret' = null
    /\ UNCHANGED <<now, timers>> /\ RatioFrame

RatioGame_timeout ==
    /\ scenario = "RatioGame"
    /\ \E i \in 1..Len(timers) :
          /\ timers[i].component = "RatioGame"
          /\ \E newProblem \in generateRatioComparison(timers[i].difficulty) :
                RatioGame' = ratioGenerateNewProblem(RatioGame, newProblem)
          /\ timers' = RemoveAt(timers, i)
    /\ ret' = null
    /\ UNCHANGED now /\ RatioFrame

-----------------------------------------------------------------------------
(* chainStore.ts: useChainStore *)

HistoryLimit == 20

useChainStoreInit ==
    [difficulty |-> 2, phase |-> "setup", chain |-> null,
     currentStepIndex |-> 0, stepResults |-> <<>>,
     gameStartTime |-> null, stepStartTime |-> null,
     totalGamesPlayed |-> 0, totalChainsCompleted |-> 0, bestScore |-> 0,
     history |-> <<>>]

\* seeded fault: history.slice(0, 20), which keeps the first 20 entries
LastEntries_KeepsOldest(s, n) == SubSeq(s, 1, Min(Len(s), n))

\* seeded fault: history.slice(20), which drops the first 20 entries
LastEntries_SliceFromStart(s, n) == SubSeq(s, n + 1, Len(s))

\* history.slice(-20)
LastEntries(s, n) ==
    IF Len(s) <= n THEN s ELSE SubSeq(s, Len(s) - n + 1, Len(s))

chainStartGame(state, chain, t) ==
    [state EXCEPT !.phase = "playing", !.chain = Some(chain),
                  !.currentStepIndex = 0, !.stepResults = <<>>,
                  !.gameStartTime = Some(t), !.stepStartTime = Some(t)]

\* the guard shared by submitAnswer and skipStep (currentStepIndex counts
\* from 0)
chainHasCurrentStep(state) ==
    /\ ~IsNull(state.chain)
    /\ state.currentStepIndex < Len(Val(state.chain).steps)

\* the set(...) shared by submitAnswer and skipStep, for the new result
chainRecordStep(state, userAnswer, isCorrect, t) ==
    LET chain == Val(state.chain)
        currentStep == chain.steps[state.currentStepIndex + 1]
        timeMs == IF ~IsNull(state.stepStartTime)
                  THEN t - Val(state.stepStartTime) ELSE 0
        newResult == [step |-> currentStep, userAnswer |-> userAnswer,
                      isCorrect |-> isCorrect, timeMs |-> timeMs]
        isLastStep == state.currentStepIndex >= Len(chain.steps) - 1
    IN  [state EXCEPT
           !.stepResults = Append(@, newResult),
           !.phase = IF isLastStep THEN "review" ELSE "playing",
           !.currentStepIndex = IF isLastStep THEN @ ELSE @ + 1,
           !.stepStartTime = IF isLastStep THEN null ELSE Some(t)]

chainIsCorrect(state, answer) ==
    answer = Val(state.chain).steps[state.currentStepIndex + 1].result

chainSubmitAnswer(state, answer, t) ==
    IF ~chainHasCurrentStep(state) THEN state
    ELSE chainRecordStep(state, Some(answer), chainIsCorrect(state, answer), t)

chainSkipStep(state, t) ==
    IF ~chainHasCurrentStep(state) THEN state
    ELSE chainRecordStep(state, null, FALSE, t)

\* seeded fault: nextStep bounded by the number of steps, not by the last index
chainNextStep_PastLast(state, t) ==
    IF IsNull(state.chain) THEN state
    ELSE IF state.currentStepIndex < Len(Val(state.chain).steps)
         THEN [state EXCEPT !.currentStepIndex = @ + 1,
                            !.stepStartTime = Some(t)]
         ELSE state

chainNextStep(state, t) ==
    IF IsNull(state.chain) THEN state
    ELSE IF state.currentStepIndex < Len(Val(state.chain).steps) - 1
         THEN [state EXCEPT !.currentStepIndex = @ + 1,
                            !.stepStartTime = Some(t)]
         ELSE state

chainReviewChain(state) == [state EXCEPT !.phase = "review"]

\* seeded fault: a chain taken as completed once its last step is current
chainCompleted_LastStepCurrent(state) ==
    state.currentStepIndex = Len(Val(state.chain).steps) - 1

\* completed, of endGame: stepResults.length === chain.steps.length
chainCompleted(state) ==
    Len(state.stepResults) = Len(Val(state.chain).steps)

\* the stats endGame computes for the session
chainSessionStats(state, t) ==
    LET totalTimeMs == IF ~IsNull(state.gameStartTime)
                       THEN t - Val(state.gameStartTime) ELSE 0
        flags == [i \in 1..Len(state.stepResults) |->
                    state.stepResults[i].isCorrect]
        correctSteps == CountIf(flags, Len(flags))
    IN  calculateChainStats(Len(state.stepResults), correctSteps,
                            totalTimeMs, chainCompleted(state))

\* seeded fault: endGame's guard testing the chain only, not the step log
chainNothingToFold_ChainOnly(state) == IsNull(state.chain)

chainNothingToFold(state) ==
    IsNull(state.chain) \/ Len(state.stepResults) = 0

chainBestScore(bestScore, finalScore) == Max(bestScore, finalScore)

chainEndGame(state, t) ==
    IF chainNothingToFold(state)
    THEN [state EXCEPT !.phase = "setup"]
    ELSE LET stats == chainSessionStats(state, t)
             newHistoryEntry == [date |-> t, difficulty |-> state.difficulty,
                                 stats |-> stats]
         IN  [state EXCEPT
                !.phase = "complete",
                !.totalGamesPlayed = @ + 1,
                !.totalChainsCompleted =
                    IF stats.completed THEN @ + 1 ELSE @,
                !.bestScore = chainBestScore(@, stats.finalScore),
                !.history = LastEntries(Append(@, newHistoryEntry),
                                        HistoryLimit)]

chainResetGame(state) ==
    [state EXCEPT !.phase = "setup", !.chain = null, !.currentStepIndex = 0,
                  !.stepResults = <<>>, !.gameStartTime = null,
                  !.stepStartTime = null]

\* getCurrentStep: the step at currentStepIndex, null without one
chainGetCurrentStep(state) ==
    IF ~chainHasCurrentStep(state) THEN null
    ELSE Some(Val(state.chain).steps[state.currentStepIndex + 1])

\* getProgress: percentage is Math.round((current / total) * 100)
chainGetProgress(state) ==
    IF IsNull(state.chain)
    THEN [current |-> 0, total |-> 0, percentage |-> 0]
    ELSE LET total == Len(Val(state.chain).steps)
             current == state.currentStepIndex + 1
         IN  [current |-> current, total |-> total,
              percentage |-> RoundDiv(current * 100, total)]

\* bookkeeping of the sessions: the games a store has folded into its
\* aggregates since its last startGame; null before the first startGame and
\* after a resetGame
FoldsAfter(folds, operation, gamesBefore, gamesAfter) ==
    IF operation = "startGame" THEN Some(0)
    ELSE IF operation = "resetGame" \/ IsNull(folds) THEN null
    ELSE Some(Val(folds) + (gamesAfter - gamesBefore))

ChainFrame ==
    UNCHANGED <<scenario, now, useGameStore, MathGame, PercentageGame,
                RatioGame, timers, useDivisibilityStore, call>>

\* ChainGame's effect "if (phase === 'review') endGame()" is scheduled by the
\* render in which the phase became review
ChainEffectAfter(old, new) == new.phase = "review" /\ old.phase # "review"

\* room left by the bounds: a behaviour ends once the store has folded
\* MaxGames games, and a step log holds at most MaxStepResults entries
ChainRoom ==
    useChainStore.totalGamesPlayed
       < (IF IsNull(call) THEN 0 ELSE call.storage.totalGamesPlayed)
         + MaxGames

ChainLogRoom == Len(useChainStore.stepResults) < MaxStepResults

\* a store action of the chain store: the component is mounted and no effect
\* is waiting to run
ChainAction(operation, new, result) ==
    /\ scenario = "useChainStore"
    /\ ChainRoom
    /\ ~chainEffect
    /\ useChainStore' = new
    /\ sessionFolds' =
          [sessionFolds EXCEPT
             !.useChainStore = FoldsAfter(@, operation,
                                          useChainStore.totalGamesPlayed,
                                          new.totalGamesPlayed)]
    /\ chainEffect' = ChainEffectAfter(useChainStore, new)
    /\ ret' = result
    /\ ChainFrame

useChainStore_setDifficulty ==
    \E difficulty \in Difficulties :
       ChainAction("setDifficulty",
                   [useChainStore EXCEPT !.difficulty = difficulty], null)

useChainStore_startGame ==
    \E chain \in generateDefaultChain(useChainStore.difficulty) :
       ChainAction("startGame", chainStartGame(useChainStore, chain, now),
                   null)

\* the answers given to the current step: its result and a wrong value
ChainAnswers(state) ==
    IF chainHasCurrentStep(state)
    THEN LET r == Val(state.chain).steps[state.currentStepIndex + 1].result
         IN  {r, r + 1}
    ELSE {0}

useChainStore_submitAnswer ==
    /\ ChainLogRoom
    /\ \E answer \in ChainAnswers(useChainStore) :
          ChainAction("submitAnswer",
                      chainSubmitAnswer(useChainStore, answer, now),
                      Some(chainHasCurrentStep(useChainStore)
                           /\ chainIsCorrect(useChainStore, answer)))

useChainStore_skipStep ==
    /\ ChainLogRoom
    /\ ChainAction("skipStep", chainSkipStep(useChainStore, now), null)

useChainStore_nextStep ==
    ChainAction("nextStep", chainNextStep(useChainStore, now), null)

useChainStore_reviewChain ==
    ChainAction("reviewChain", chainReviewChain(useChainStore), null)

useChainStore_endGame ==
    ChainAction("endGame", chainEndGame(useChainStore, now), null)

useChainStore_resetGame ==
    ChainAction("resetGame", chainResetGame(useChainStore), null)

\* the auto-end effect of ChainGame runs: endGame()
ChainGame_autoEnd ==
    /\ scenario = "useChainStore"
    /\ chainEffect
    /\ useChainStore' = chainEndGame(useChainStore, now)
    /\ sessionFolds' =
          [sessionFolds EXCEPT
             !.useChainStore =
                 FoldsAfter(@, "endGame", useChainStore.totalGamesPlayed,
                            chainEndGame(useChainStore, now).totalGamesPlayed)]
    /\ chainEffect' = FALSE
    /\ ret' = null
    /\ ChainFrame

-----------------------------------------------------------------------------
(* divisibilityStore.ts: useDivisibilityStore *)

useDivisibilityStoreInit ==
    [difficulty |-> 2, acceptNegativeRemainders |-> TRUE, phase |-> "setup",
     currentProblem |-> null, problemCount |-> 0, maxProblems |-> 10,
     results |-> <<>>, userDivisibilityAnswer |-> null,
     divisibilityResult |-> "pending",
     gameStartTime |-> null, problemStartTime |-> null,
     totalGamesPlayed |-> 0, totalProblemsAttempted |-> 0,
     totalCorrectDivisibility |-> 0, totalCorrectRemainder |-> 0,
     bestAccuracy |-> 0]

divStartGame(state, problem, t) ==
    [state EXCEPT !.phase = "divisibility", !.currentProblem = Some(problem),
                  !.problemCount = 1, !.results = <<>>,
                  !.userDivisibilityAnswer = null,
                  !.divisibilityResult = "pending",
                  !.gameStartTime = Some(t), !.problemStartTime = Some(t)]

\* seeded fault: submitDivisibilityAnswer without its currentProblem guard
divSubmitDivisibilityAnswer_Unguarded(state, isDivisible) ==
    [state EXCEPT
       !.userDivisibilityAnswer = Some(isDivisible),
       !.divisibilityResult =
           IF /\ ~IsNull(state.currentProblem)
              /\ validateDivisibilityAnswer(Val(state.currentProblem),
                                            isDivisible)
           THEN "correct" ELSE "incorrect",
       !.phase = "remainder"]

divSubmitDivisibilityAnswer(state, isDivisible) ==
    IF IsNull(state.currentProblem) THEN state
    ELSE [state EXCEPT
            !.userDivisibilityAnswer = Some(isDivisible),
            !.divisibilityResult =
                IF validateDivisibilityAnswer(Val(state.currentProblem),
                                              isDivisible)
                THEN "correct" ELSE "incorrect",
            !.phase = "remainder"]

divCanSubmitRemainder(state) ==
    ~IsNull(state.currentProblem) /\ ~IsNull(state.userDivisibilityAnswer)

divSubmitRemainderAnswer(state, remainder, t) ==
    IF ~divCanSubmitRemainder(state) THEN state
    ELSE LET currentProblem == Val(state.currentProblem)
             isCorrect == validateRemainderAnswer(currentProblem, remainder,
                                                  state.acceptNegativeRemainders)
             timeMs == IF ~IsNull(state.problemStartTime)
                       THEN t - Val(state.problemStartTime) ELSE 0
             result == [problem |-> currentProblem,
                        userDivisibilityAnswer |->
                            Val(state.userDivisibilityAnswer),
                        userRemainderAnswer |-> remainder,
                        divisibilityCorrect |->
                            state.divisibilityResult = "correct",
                        remainderCorrect |-> isCorrect,
                        timeMs |-> timeMs]
         IN  [state EXCEPT !.results = Append(@, result),
                           !.phase = "feedback"]

\* Math.round((correctDiv + correctRem) / totalAnswers * 100), 0 for an empty
\* result log
divSessionAccuracy(results) ==
    LET divFlags == [i \in 1..Len(results) |-> results[i].divisibilityCorrect]
        remFlags == [i \in 1..Len(results) |-> results[i].remainderCorrect]
        correct == CountIf(divFlags, Len(results))
                   + CountIf(remFlags, Len(results))
        totalAnswers == Len(results) * 2
    IN  IF totalAnswers > 0 THEN RoundDiv(100 * correct, totalAnswers) ELSE 0

\* seeded fault: bestAccuracy overwritten by the session's accuracy
divBestAccuracy_Latest(bestAccuracy, sessionAccuracy) == sessionAccuracy

divBestAccuracy(bestAccuracy, sessionAccuracy) ==
    Max(bestAccuracy, sessionAccuracy)

divEndGame(state) ==
    LET results == state.results
        divFlags == [i \in 1..Len(results) |-> results[i].divisibilityCorrect]
        remFlags == [i \in 1..Len(results) |-> results[i].remainderCorrect]
    IN  [state EXCEPT
           !.phase = "summary",
           !.totalGamesPlayed = @ + 1,
           !.totalProblemsAttempted = @ + Len(results),
           !.totalCorrectDivisibility = @ + CountIf(divFlags, Len(results)),
           !.totalCorrectRemainder = @ + CountIf(remFlags, Len(results)),
           !.bestAccuracy = divBestAccuracy(@, divSessionAccuracy(results))]

divNextProblem(state, problem, t) ==
    IF state.problemCount >= state.maxProblems
    THEN divEndGame(state)
    ELSE [state EXCEPT !.phase = "divisibility",
                       !.currentProblem = Some(problem),
                       !.problemCount = @ + 1,
                       !.userDivisibilityAnswer = null,
                       !.divisibilityResult = "pending",
                       !.problemStartTime = Some(t)]

\* seeded fault: a reset that also forgets the best accuracy
divResetGame_ForgetsBest(state) ==
    [state EXCEPT !.phase = "setup", !.currentProblem = null,
                  !.problemCount = 0, !.results = <<>>,
                  !.userDivisibilityAnswer = null,
                  !.divisibilityResult = "pending",
                  !.gameStartTime = null, !.problemStartTime = null,
                  !.bestAccuracy = 0]

divResetGame(state) ==
    [state EXCEPT !.phase = "setup", !.currentProblem = null,
                  !.problemCount = 0, !.results = <<>>,
                  !.userDivisibilityAnswer = null,
                  !.divisibilityResult = "pending",
                  !.gameStartTime = null, !.problemStartTime = null]

DivFrame ==
    UNCHANGED <<scenario, now, useGameStore, MathGame, PercentageGame,
                RatioGame, timers, useChainStore, chainEffect, call>>

\* room left by the bounds: a behaviour ends once the store has folded
\* MaxGames games, and a result log holds at most MaxProblemResults entries;
\* a behaviour of one game ends with the game and logs at most
\* MaxOneGameResults entries
DivRoom ==
    useDivisibilityStore.totalGamesPlayed
       < (IF scenario = "useDivisibilityStore" THEN MaxGames ELSE 1)

DivLogRoom ==
    Len(useDivisibilityStore.results)
       < (IF scenario = "useDivisibilityStore" THEN MaxProblemResults
          ELSE MaxOneGameResults)

DivAction(operation, new, result) ==
    /\ scenario \in DivScenarios
    /\ DivRoom
    /\ useDivisibilityStore' = new
    /\ sessionFolds' =
          [sessionFolds EXCEPT
             !.useDivisibilityStore =
                 FoldsAfter(@, operation,
                            useDivisibilityStore.totalGamesPlayed,
                            new.totalGamesPlayed)]
    /\ ret' = result
    /\ DivFrame

useDivisibilityStore_setDifficulty ==
    \E difficulty \in Difficulties :
       DivAction("setDifficulty",
                 [useDivisibilityStore EXCEPT !.difficulty = difficulty], null)

useDivisibilityStore_setAcceptNegativeRemainders ==
    \E accept \in BOOLEAN :
       DivAction("setAcceptNegativeRemainders", [useDivisibilityStore EXCEPT
                    !.acceptNegativeRemainders = accept], null)

useDivisibilityStore_setMaxProblems ==
    \E count \in 1..MaxProblemsChoice :
       DivAction("setMaxProblems",
                 [useDivisibilityStore EXCEPT !.maxProblems = count], null)

useDivisibilityStore_startGame ==
    \E problem \in generateDefaultProblem(useDivisibilityStore.difficulty) :
       DivAction("startGame",
                 divStartGame(useDivisibilityStore, problem, now), null)

useDivisibilityStore_submitDivisibilityAnswer ==
    \E isDivisible \in BOOLEAN :
       DivAction("submitDivisibilityAnswer",
                 divSubmitDivisibilityAnswer(useDivisibilityStore, isDivisible),
                 Some(/\ ~IsNull(useDivisibilityStore.currentProblem)
                      /\ validateDivisibilityAnswer(
                            Val(useDivisibilityStore.currentProblem),
                            isDivisible)))

\* the remainders typed for a problem: the positive one, the negative one
\* and a wrong one
RemainderAnswers(state) ==
    IF IsNull(state.currentProblem) THEN {0}
    ELSE LET p == Val(state.currentProblem)
         IN  {p.remainder, p.negativeRemainder, p.divisor}

useDivisibilityStore_submitRemainderAnswer ==
    /\ DivLogRoom
    /\ \E remainder \in RemainderAnswers(useDivisibilityStore) :
          DivAction("submitRemainderAnswer",
                    divSubmitRemainderAnswer(useDivisibilityStore, remainder,
                                             now),
                    Some(/\ divCanSubmitRemainder(useDivisibilityStore)
                         /\ validateRemainderAnswer(
                               Val(useDivisibilityStore.currentProblem),
                               remainder,
                               useDivisibilityStore.acceptNegativeRemainders)))

useDivisibilityStore_nextProblem ==
    /\ useDivisibilityStore.problemCount < MaxProblemCount
       \/ useDivisibilityStore.problemCount >= useDivisibilityStore.maxProblems
    /\ \E problem \in generateDefaultProblem(useDivisibilityStore.difficulty) :
          DivAction("nextProblem",
                    divNextProblem(useDivisibilityStore, problem, now), null)

useDivisibilityStore_endGame ==
    DivAction("endGame", divEndGame(useDivisibilityStore), null)

useDivisibilityStore_resetGame ==
    DivAction("resetGame", divResetGame(useDivisibilityStore), null)

-----------------------------------------------------------------------------
(* The clock and the specification *)

Tick ==
    /\ now < (MaxTicks + 1) * TickMs
    /\ now' = now + TickMs
    /\ ret' = null
    /\ UNCHANGED <<scenario, useGameStore, MathGame, PercentageGame,
                   RatioGame, timers, useChainStore, chainEffect,
                   useDivisibilityStore, sessionFolds, call>>

\* the stores and the components as they are constructed
InitSessions ==
    /\ now = TickMs
    /\ useGameStore = useGameStoreInit
    /\ MathGame = MathGameInit
    /\ PercentageGame = PercentageGameInit
    /\ RatioGame = RatioGameInit
    /\ timers = <<>>
    /\ useChainStore = useChainStoreInit
    /\ chainEffect = FALSE
    /\ useDivisibilityStore = useDivisibilityStoreInit
    /\ ret = null
    /\ sessionFolds = [useChainStore |-> null, useDivisibilityStore |-> null]

Init ==
    /\ scenario \in Scenarios
    /\ InitSessions
    /\ call = null

Next ==
    \/ Tick
    \/ useGameStore_setMode
    \/ useGameStore_setDifficulty
    \/ useGameStore_startGame
    \/ useGameStore_endGame
    \/ useGameStore_setQuestion
    \/ useGameStore_submitAnswer
    \/ useGameStore_resetStats
    \/ MathGame_startGame
    \/ MathGame_resetGame
    \/ MathGame_handleAnswer
    \/ MathGame_setOperation
    \/ MathGame_adjustDifficulty
    \/ MathGame_timeout
    \/ PercentageGame_startGame
    \/ PercentageGame_resetGame
    \/ PercentageGame_handleAnswer
    \/ PercentageGame_adjustDifficulty
    \/ PercentageGame_timeout
    \/ RatioGame_startGame
    \/ RatioGame_resetGame
    \/ RatioGame_handleAnswer
    \/ RatioGame_adjustDifficulty
    \/ RatioGame_timeout
    \/ useChainStore_setDifficulty
    \/ useChainStore_startGame
    \/ useChainStore_submitAnswer
    \/ useChainStore_skipStep
    \/ useChainStore_nextStep
    \/ useChainStore_reviewChain
    \/ useChainStore_endGame
    \/ useChainStore_resetGame
    \/ ChainGame_autoEnd
    \/ useDivisibilityStore_setDifficulty
    \/ useDivisibilityStore_setAcceptNegativeRemainders
    \/ useDivisibilityStore_setMaxProblems
    \/ useDivisibilityStore_startGame
    \/ useDivisibilityStore_submitDivisibilityAnswer
    \/ useDivisibilityStore_submitRemainderAnswer
    \/ useDivisibilityStore_nextProblem
    \/ useDivisibilityStore_endGame
    \/ useDivisibilityStore_resetGame

Spec == Init /\ [][Next]_vars

\* the behaviours of one scenario: the same actions, started in that scenario
InitGameStore == Init /\ scenario = "useGameStore"

NextGameStore ==
    \/ Tick
    \/ useGameStore_setMode
    \/ useGameStore_setDifficulty
    \/ useGameStore_startGame
    \/ useGameStore_endGame
    \/ useGameStore_setQuestion
    \/ useGameStore_submitAnswer
    \/ useGameStore_resetStats

SpecGameStore == InitGameStore /\ [][NextGameStore]_vars

InitMathGame == Init /\ scenario = "MathGame"

NextMathGame ==
    \/ Tick
    \/ MathGame_startGame
    \/ MathGame_resetGame
    \/ MathGame_handleAnswer
    \/ MathGame_setOperation
    \/ MathGame_adjustDifficulty
    \/ MathGame_timeout

SpecMathGame == InitMathGame /\ [][NextMathGame]_vars

InitPercentageGame == Init /\ scenario = "PercentageGame"

NextPercentageGame ==
    \/ Tick
    \/ PercentageGame_startGame
    \/ PercentageGame_resetGame
    \/ PercentageGame_handleAnswer
    \/ PercentageGame_adjustDifficulty
    \/ PercentageGame_timeout

SpecPercentageGame == InitPercentageGame /\ [][NextPercentageGame]_vars

InitRatioGame == Init /\ scenario = "RatioGame"

NextRatioGame ==
    \/ Tick
    \/ RatioGame_startGame
    \/ RatioGame_resetGame
    \/ RatioGame_handleAnswer
    \/ RatioGame_adjustDifficulty
    \/ RatioGame_timeout

SpecRatioGame == InitRatioGame /\ [][NextRatioGame]_vars

InitChain == Init /\ scenario = "useChainStore"

NextChain ==
    \/ Tick
    \/ useChainStore_setDifficulty
    \/ useChainStore_startGame
    \/ useChainStore_submitAnswer
    \/ useChainStore_skipStep
    \/ useChainStore_nextStep
    \/ useChainStore_reviewChain
    \/ useChainStore_endGame
    \/ useChainStore_resetGame
    \/ ChainGame_autoEnd

SpecChain == InitChain /\ [][NextChain]_vars

\* the state zustand's persist middleware stored after games earlier games,
\* all of them completed without a mistake and dated before this run (the
\* history holds the last HistoryLimit of them); only the fields named by
\* partialize are stored
ChainStorage(games) ==
    LET stats == calculateChainStats(ChainMinLength, ChainMinLength,
                                     ChainMinLength * 1000, TRUE)
        first == Max(games - HistoryLimit, 0) + 1
    IN  [difficulty |-> 2, totalGamesPlayed |-> games,
         totalChainsCompleted |-> games,
         bestScore |-> IF games > 0 THEN stats.finalScore ELSE 0,
         history |-> [i \in 1..(games - first + 1) |->
                        [date |-> first + i - 1, difficulty |-> 2,
                         stats |-> stats]]]

\* the chain store created and rehydrated from a storage whose history is
\* full or up to StoredHistoryGap entries short of it
InitChainRehydrated ==
    /\ scenario = "useChainStore"
    /\ now = TickMs
    /\ useGameStore = useGameStoreInit
    /\ MathGame = MathGameInit
    /\ PercentageGame = PercentageGameInit
    /\ RatioGame = RatioGameInit
    /\ timers = <<>>
    /\ chainEffect = FALSE
    /\ useDivisibilityStore = useDivisibilityStoreInit
    /\ ret = null
    /\ sessionFolds = [useChainStore |-> null, useDivisibilityStore |-> null]
    /\ \E games \in (HistoryLimit - StoredHistoryGap)..HistoryLimit :
          LET storage == ChainStorage(games) IN
          /\ call = [pc |-> "rehydrated", storage |-> storage]
          /\ useChainStore =
                [useChainStoreInit EXCEPT
                   !.difficulty = storage.difficulty,
                   !.totalGamesPlayed = storage.totalGamesPlayed,
                   !.totalChainsCompleted = storage.totalChainsCompleted,
                   !.bestScore = storage.bestScore,
                   !.history = storage.history]

SpecChainRehydrated == InitChainRehydrated /\ [][NextChain]_vars

InitDivisibility == Init /\ scenario = "useDivisibilityStore"

NextDivisibility ==
    \/ Tick
    \/ useDivisibilityStore_setDifficulty
    \/ useDivisibilityStore_setAcceptNegativeRemainders
    \/ useDivisibilityStore_setMaxProblems
    \/ useDivisibilityStore_startGame
    \/ useDivisibilityStore_submitDivisibilityAnswer
    \/ useDivisibilityStore_submitRemainderAnswer
    \/ useDivisibilityStore_nextProblem
    \/ useDivisibilityStore_endGame
    \/ useDivisibilityStore_resetGame

SpecDivisibility == InitDivisibility /\ [][NextDivisibility]_vars

InitDivisibilityOneGame ==
    /\ scenario = "useDivisibilityStore in one game"
    /\ InitSessions
    /\ call = null

\* the actions of the store, all within one tick of the clock
NextDivisibilityOneGame ==
    \/ useDivisibilityStore_setDifficulty
    \/ useDivisibilityStore_setAcceptNegativeRemainders
    \/ useDivisibilityStore_setMaxProblems
    \/ useDivisibilityStore_startGame
    \/ useDivisibilityStore_submitDivisibilityAnswer
    \/ useDivisibilityStore_submitRemainderAnswer
    \/ useDivisibilityStore_nextProblem
    \/ useDivisibilityStore_endGame
    \/ useDivisibilityStore_resetGame

SpecDivisibilityOneGame ==
    InitDivisibilityOneGame /\ [][NextDivisibilityOneGame]_vars

-----------------------------------------------------------------------------
(* The engine functions called on their own: the arguments and the locals   *)
(* of the running function are in call, each draw of the random source is   *)
(* a step, and the returned value is left in ret                            *)

EngineDifficulties == 1..5

EngineFrame ==
    UNCHANGED <<scenario, now, useGameStore, MathGame, PercentageGame,
                RatioGame, timers, useChainStore, chainEffect,
                useDivisibilityStore, sessionFolds>>

(* divisibilityEngine.ts: generateDivisibilityProblem(config) *)

InitDivisibilityEngine ==
    /\ scenario = "generateDivisibilityProblem"
    /\ InitSessions
    /\ \E difficulty \in EngineDifficulties, includeExact \in BOOLEAN :
          call = [pc |-> "entry",
                  config |-> [difficulty |-> difficulty,
                              remainderType |-> "positive",
                              includeExactDivisibility |-> includeExact],
                  divisor |-> null, dividend |-> null, attempts |-> 0]

\* shouldBeExact: includeExactDivisibility and Math.random() < 0.3
generateDivisibilityProblem_exact ==
    /\ scenario = "generateDivisibilityProblem"
    /\ call.pc = "entry"
    /\ call.config.includeExactDivisibility
    /\ \E problem \in
             generateExactDivisibilityProblem(call.config.difficulty) :
          ret' = Some(problem)
    /\ call' = [call EXCEPT !.pc = "returned"]
    /\ EngineFrame

\* not shouldBeExact: generateRemainderProblem picks its divisor
generateRemainderProblem_enter ==
    /\ scenario = "generateDivisibilityProblem"
    /\ call.pc = "entry"
    /\ LET config == divisibilityDifficultyRanges[call.config.difficulty] IN
       \E divisor \in randomInt(config.divisorRange.min,
                                config.divisorRange.max) :
          call' = [call EXCEPT !.pc = "draw", !.divisor = Some(divisor),
                               !.attempts = 0]
    /\ UNCHANGED ret
    /\ EngineFrame

\* one pass of do { dividend = randomInt(...); attempts++ }
\* while (dividend % divisor === 0 && attempts < 50)
generateRemainderProblem_draw ==
    /\ scenario = "generateDivisibilityProblem"
    /\ call.pc = "draw"
    /\ LET config == divisibilityDifficultyRanges[call.config.difficulty] IN
       \E dividend \in randomInt(config.dividendRange.min,
                                 config.dividendRange.max) :
          call' = [call EXCEPT
                     !.dividend = Some(dividend),
                     !.attempts = @ + 1,
                     !.pc = IF RemainderLoopContinues(dividend,
                                                      Val(call.divisor),
                                                      call.attempts + 1)
                            THEN "draw" ELSE "adjust"]
    /\ UNCHANGED ret
    /\ EngineFrame

\* after the loop: the adjustment of a dividend that is still divisible,
\* and the returned problem
generateRemainderProblem_return ==
    /\ scenario = "generateDivisibilityProblem"
    /\ call.pc = "adjust"
    /\ \E dividend \in
             (IF Val(call.dividend) % Val(call.divisor) = 0
              THEN AdjustedDividends(Val(call.dividend), Val(call.divisor))
              ELSE {Val(call.dividend)}) :
          /\ call' = [call EXCEPT !.pc = "returned",
                                  !.dividend = Some(dividend)]
          /\ ret' = Some(RemainderProblem(call.config.difficulty,
                                          Val(call.divisor), dividend))
    /\ EngineFrame

NextDivisibilityEngine ==
    \/ generateDivisibilityProblem_exact
    \/ generateRemainderProblem_enter
    \/ generateRemainderProblem_draw
    \/ generateRemainderProblem_return

SpecDivisibilityEngine ==
    InitDivisibilityEngine /\ [][NextDivisibilityEngine]_vars

(* divisibilityEngine.ts: validateRemainderAnswer(problem, userRemainder,   *)
(* acceptNegative), on the problems the generator returns                   *)

InitValidateRemainder ==
    /\ scenario = "validateRemainderAnswer"
    /\ InitSessions
    /\ \E difficulty \in EngineDifficulties :
       \E problem \in generateDefaultProblem(difficulty) :
       \E userRemainder \in (0 - problem.divisor)..problem.divisor :
       \E acceptNegative \in BOOLEAN :
          call = [pc |-> "entry", problem |-> problem,
                  userRemainder |-> userRemainder,
                  acceptNegative |-> acceptNegative]

validateRemainderAnswer_call ==
    /\ scenario = "validateRemainderAnswer"
    /\ call.pc = "entry"
    /\ ret' = Some(validateRemainderAnswer(call.problem, call.userRemainder,
                                           call.acceptNegative))
    /\ call' = [call EXCEPT !.pc = "returned"]
    /\ EngineFrame

NextValidateRemainder == validateRemainderAnswer_call

SpecValidateRemainder ==
    InitValidateRemainder /\ [][NextValidateRemainder]_vars

(* chainEngine.ts: generateChain(config), 1 <= minLength <= maxLength *)

InitChainEngine ==
    /\ scenario = "generateChain"
    /\ InitSessions
    /\ \E difficulty \in EngineDifficulties :
       \E minLength \in 1..EngineChainLength :
       \E maxLength \in minLength..EngineChainLength :
          call = [pc |-> "entry",
                  config |-> [minLength |-> minLength,
                              maxLength |-> maxLength,
                              difficulty |-> difficulty]]

generateChain_call ==
    /\ scenario = "generateChain"
    /\ call.pc = "entry"
    /\ \E chain \in generateChain(call.config) : ret' = Some(chain)
    /\ call' = [call EXCEPT !.pc = "returned"]
    /\ EngineFrame

NextChainEngine == generateChain_call

SpecChainEngine == InitChainEngine /\ [][NextChainEngine]_vars

(* ratioEngine.ts: generateRatioComparison(difficulty) *)

InitRatioEngine ==
    /\ scenario = "generateRatioComparison"
    /\ InitSessions
    /\ \E difficulty \in EngineDifficulties :
          call = [pc |-> "loop", difficulty |-> difficulty, attempts |-> 0,
                  ratioA |-> null, ratioB |-> null]

\* one pass of do { attempts++; ratioA = ...; ratioB = ... }
\* while ((the pair is not accepted) && attempts < maxAttempts)
generateRatioComparison_attempt ==
    /\ scenario = "generateRatioComparison"
    /\ call.pc = "loop"
    /\ LET config == RATIO_DIFFICULTY_CONFIG[call.difficulty] IN
       \E num1 \in randomInt(config.numRange[1], config.numRange[2]),
          den1 \in randomInt(config.denRange[1], config.denRange[2]) :
       \E ratioB \in RatioCandidates(call.difficulty, num1, den1) :
          LET ratioA == createRatio(num1, den1) IN
          call' = [call EXCEPT
                     !.attempts = @ + 1,
                     !.ratioA = Some(ratioA),
                     !.ratioB = Some(ratioB),
                     !.pc = IF /\ ~RatioAccepted(call.difficulty,
                                                 ratioA, ratioB)
                               /\ call.attempts + 1 < maxAttempts
                            THEN "loop" ELSE "after"]
    /\ UNCHANGED ret
    /\ EngineFrame

\* after the loop: the fallback when attempts >= maxAttempts, the random
\* swap, and the returned problem
generateRatioComparison_return ==
    /\ scenario = "generateRatioComparison"
    /\ call.pc = "after"
    /\ LET ratioA == Val(call.ratioA)
           ratioB == IF call.attempts >= maxAttempts
                     THEN RatioFallback(call.difficulty, ratioA)
                     ELSE Val(call.ratioB)
       IN  \E swap \in BOOLEAN :
              /\ call' = [call EXCEPT
                            !.pc = "returned",
                            !.ratioA = Some(IF swap THEN ratioB ELSE ratioA),
                            !.ratioB = Some(IF swap THEN ratioA ELSE ratioB)]
              /\ ret' = Some(IF swap
                             THEN RatioProblem(call.difficulty, ratioB, ratioA)
                             ELSE RatioProblem(call.difficulty, ratioA, ratioB))
    /\ EngineFrame

NextRatioEngine ==
    \/ generateRatioComparison_attempt
    \/ generateRatioComparison_return

SpecRatioEngine == InitRatioEngine /\ [][NextRatioEngine]_vars

(* percentageEngine.ts: generatePercentageProblem(difficulty), with every   *)
(* value of every range drawn: the call returns the problem of a pass of    *)
(* the loop that is not rejected                                            *)

InitPercentageProblems ==
    /\ scenario = "generatePercentageProblem over its ranges"
    /\ InitSessions
    /\ \E difficulty \in EngineDifficulties :
          call = [pc |-> "entry", difficulty |-> difficulty]

generatePercentageProblem_call ==
    /\ scenario = "generatePercentageProblem over its ranges"
    /\ call.pc = "entry"
    /\ \E denominator \in PercentageDenominators(call.difficulty) :
       \E numerator \in PercentageNumerators(call.difficulty, denominator) :
          LET problem == PercentageProblem(call.difficulty, numerator,
                                           denominator)
          IN  /\ ~PercentageRejected(problem.answer, call.difficulty)
              /\ ret' = Some(problem)
    /\ call' = [call EXCEPT !.pc = "returned"]
    /\ EngineFrame

NextPercentageProblems == generatePercentageProblem_call

SpecPercentageProblems ==
    InitPercentageProblems /\ [][NextPercentageProblems]_vars

(* percentageEngine.ts: generatePercentageProblem(difficulty), draw by draw *)

InitPercentageEngine ==
    /\ scenario = "generatePercentageProblem"
    /\ InitSessions
    /\ \E difficulty \in EngineDifficulties :
          call = [pc |-> "denominator", difficulty |-> difficulty,
                  numerator |-> null, denominator |-> null,
                  percentage |-> null]

\* do { denominator = randomInRange(...);
generatePercentageProblem_denominator ==
    /\ scenario = "generatePercentageProblem"
    /\ call.pc = "denominator"
    /\ \E denominator \in PercentageDenominators(call.difficulty) :
          call' = [call EXCEPT !.pc = "numerator",
                               !.denominator = Some(denominator)]
    /\ UNCHANGED ret
    /\ EngineFrame

\* numerator = randomInRange(...); percentage = calculatePercentage(...) }
\* while (the percentage is rejected)
generatePercentageProblem_numerator ==
    /\ scenario = "generatePercentageProblem"
    /\ call.pc = "numerator"
    /\ \E numerator \in PercentageNumerators(call.difficulty,
                                              Val(call.denominator)) :
          LET config == PERCENTAGE_DIFFICULTY_CONFIG[call.difficulty]
              percentage == calculatePercentage(numerator,
                                                Val(call.denominator),
                                                config.decimalPlaces)
          IN  call' = [call EXCEPT
                         !.numerator = Some(numerator),
                         !.percentage = Some(percentage),
                         !.pc = IF PercentageRejected(percentage,
                                                      call.difficulty)
                                THEN "denominator" ELSE "after"]
    /\ UNCHANGED ret
    /\ EngineFrame

generatePercentageProblem_return ==
    /\ scenario = "generatePercentageProblem"
    /\ call.pc = "after"
    /\ ret' = Some(PercentageProblem(call.difficulty, Val(call.numerator),
                                     Val(call.denominator)))
    /\ call' = [call EXCEPT !.pc = "returned"]
    /\ EngineFrame

NextPercentageEngine ==
    \/ generatePercentageProblem_denominator
    \/ generatePercentageProblem_numerator
    \/ generatePercentageProblem_return

\* the call keeps running until it returns
SpecPercentageEngine ==
    /\ InitPercentageEngine
    /\ [][NextPercentageEngine]_vars
    /\ WF_vars(NextPercentageEngine)

(* the two generators whose sampling loop counts its attempts *)

InitBoundedLoops == InitRatioEngine \/ InitDivisibilityEngine

NextBoundedLoops == NextRatioEngine \/ NextDivisibilityEngine

SpecBoundedLoops == InitBoundedLoops /\ [][NextBoundedLoops]_vars

(* percentageEngine.ts: isPercentageCorrect(userAnswer, correctAnswer,      *)
(* decimalPlaces), the answers in thousandths of a percent                  *)

\* what is typed, as a distance from the correct answer in thousandths
TypedOffsets ==
    {-70, -51, -50, -49, -6, -5, -4, -2, 0, 2, 4, 5, 6, 10, 49, 50, 51, 70}

InitPercentageCorrect ==
    /\ scenario = "isPercentageCorrect"
    /\ InitSessions
    /\ \E fraction \in CheckedFractions, offset \in TypedOffsets :
          LET problem == PercentageProblem(fraction[1], fraction[2],
                                           fraction[3])
          IN  call = [pc |-> "entry",
                      userAnswer |-> 10 * problem.answer + offset,
                      correctAnswer |-> 10 * problem.answer,
                      decimalPlaces |-> problem.decimalPlaces]

isPercentageCorrect_call ==
    /\ scenario = "isPercentageCorrect"
    /\ call.pc = "entry"
    /\ ret' = Some(isPercentageCorrect(call.userAnswer, call.correctAnswer,
                                       call.decimalPlaces))
    /\ call' = [call EXCEPT !.pc = "returned"]
    /\ EngineFrame

NextPercentageCorrect == isPercentageCorrect_call

SpecPercentageCorrect ==
    InitPercentageCorrect /\ [][NextPercentageCorrect]_vars

(* mathEngine.ts: generateAddition(difficulty) and                          *)
(* generateSubtraction(difficulty)                                          *)

InitMathEngine ==
    /\ scenario = "mathEngine"
    /\ InitSessions
    /\ \E operation \in {"addition", "subtraction"},
          difficulty \in EngineDifficulties :
          call = [pc |-> "entry", operation |-> operation,
                  difficulty |-> difficulty, num1 |-> null, num2 |-> null]

generateAddition_call ==
    /\ scenario = "mathEngine"
    /\ call.pc = "entry"
    /\ call.operation = "addition"
    /\ \E problem \in generateAddition(call.difficulty) :
          ret' = Some(problem)
    /\ call' = [call EXCEPT !.pc = "returned"]
    /\ EngineFrame

\* let num1, let num2: the two values are sampled
generateSubtraction_sample ==
    /\ scenario = "mathEngine"
    /\ call.pc = "entry"
    /\ call.operation = "subtraction"
    /\ LET config == MATH_DIFFICULTY_CONFIG[call.difficulty] IN
       \E num1 \in generateNumberWithDigits(config.digits1),
          num2 \in generateNumberWithDigits(config.digits2) :
          call' = [call EXCEPT !.pc = "sampled", !.num1 = Some(num1),
                               !.num2 = Some(num2)]
    /\ UNCHANGED ret
    /\ EngineFrame

generateSubtraction_return ==
    /\ scenario = "mathEngine"
    /\ call.pc = "sampled"
    /\ ret' = Some(SubtractionProblem(call.difficulty, Val(call.num1),
                                      Val(call.num2)))
    /\ call' = [call EXCEPT !.pc = "returned"]
    /\ EngineFrame

NextMathEngine ==
    \/ generateAddition_call
    \/ generateSubtraction_sample
    \/ generateSubtraction_return

SpecMathEngine == InitMathEngine /\ [][NextMathEngine]_vars

(* chainEngine.ts: calculateChainStats(totalSteps, correctSteps,            *)
(* totalTimeMs, completed)                                                  *)

\* average times per step, in milliseconds, around the roundings of the
\* speed bonus and around its limit of 5 seconds
StatsAverages ==
    {0, 50, 1000, 3449, 3450, 3451, 3950, 4150, 4450, 4650, 4949, 4950,
     4951, 4999, 5000, 5001, 7000}

InitChainStats ==
    /\ scenario = "calculateChainStats"
    /\ InitSessions
    /\ \E totalSteps \in 0..MaxStatsSteps, completed \in BOOLEAN,
          average \in StatsAverages, extra \in 0..1 :
       \E correctSteps \in 0..totalSteps :
          call = [pc |-> "entry", totalSteps |-> totalSteps,
                  correctSteps |-> correctSteps,
                  totalTimeMs |-> average * totalSteps + extra,
                  completed |-> completed]

calculateChainStats_call ==
    /\ scenario = "calculateChainStats"
    /\ call.pc = "entry"
    /\ ret' = Some(calculateChainStats(call.totalSteps, call.correctSteps,
                                       call.totalTimeMs, call.completed))
    /\ call' = [call EXCEPT !.pc = "returned"]
    /\ EngineFrame

NextChainStats == calculateChainStats_call

SpecChainStats == InitChainStats /\ [][NextChainStats]_vars

(* the calls of the uniform integer samplers (generateNumberWithDigits,     *)
(* randomInRange, randomInt) the engines make: call holds the arguments of  *)
(* one call, for one difficulty and one choice of the values drawn before   *)

SamplerCall(site, given, min, max) ==
    [site |-> site, given |-> given, min |-> min, max |-> max]

mathEngineSamplerCalls(difficulty) ==
    LET config == MATH_DIFFICULTY_CONFIG[difficulty] IN
    { SamplerCall("generateNumberWithDigits", digits,
                  Pow10(digits - 1), Pow10(digits) - 1) :
        digits \in {config.digits1, config.digits2} }

percentageEngineSamplerCalls(difficulty) ==
    LET config == PERCENTAGE_DIFFICULTY_CONFIG[difficulty] IN
    { SamplerCall("denominator", 0, config.denRange[1], config.denRange[2]) }
    \cup { LET range == PercentageNumeratorRange(difficulty, denominator)
           IN  SamplerCall("numerator", denominator, range.min, range.max) :
             denominator \in PercentageDenominators(difficulty) }

\* num1, den1 and the fresh num2, den2 draw from the configured ranges; at
\* difficulty 4 and 5 the target percentage draws its distance from
\* [minDiffPercent * 10, maxDiffPercent * 10]
ratioEngineSamplerCalls(difficulty) ==
    LET config == RATIO_DIFFICULTY_CONFIG[difficulty] IN
    { SamplerCall("numerator", 0, config.numRange[1], config.numRange[2]),
      SamplerCall("denominator", 0, config.denRange[1], config.denRange[2]) }
    \cup IF difficulty >= 4
         THEN { SamplerCall("targetPercentage", 0, config.minDiffPercent,
                            config.maxDiffPercent) }
         ELSE {}

\* generateDefaultChain: the length in [10, 20], the starting pair, and the
\* addend of each step from the second to the twentieth
chainEngineSamplerCalls(difficulty) ==
    LET range == chainDifficultyRanges[difficulty].startingNumbers IN
    { SamplerCall("totalLength", 0, 10, 20),
      SamplerCall("generateStartingPair", 0, range.min, range.max) }
    \cup { LET addendRange == getAddendRange(i, difficulty)
           IN  SamplerCall("addend", i, addendRange.min, addendRange.max) :
             i \in 2..20 }

divisibilityEngineSamplerCalls(difficulty) ==
    LET config == divisibilityDifficultyRanges[difficulty]
        divisors == randomInt(config.divisorRange.min,
                              config.divisorRange.max)
    IN  { SamplerCall("divisor", 0, config.divisorRange.min,
                      config.divisorRange.max),
          SamplerCall("dividend", 0, config.dividendRange.min,
                      config.dividendRange.max) }
        \cup { LET range == QuotientRange(difficulty, divisor)
               IN  SamplerCall("quotient", divisor, range.min, range.max) :
                 divisor \in divisors }
        \cup { LET range == OffsetRange(divisor)
               IN  SamplerCall("offset", divisor, range.min, range.max) :
                 divisor \in divisors }

Engines == {"mathEngine", "percentageEngine", "ratioEngine", "chainEngine",
            "divisibilityEngine"}

SamplerCalls(engine, difficulty) ==
    CASE engine = "mathEngine" -> mathEngineSamplerCalls(difficulty)
      [] engine = "percentageEngine" ->
             percentageEngineSamplerCalls(difficulty)
      [] engine = "ratioEngine" -> ratioEngineSamplerCalls(difficulty)
      [] engine = "chainEngine" -> chainEngineSamplerCalls(difficulty)
      [] engine = "divisibilityEngine" ->
             divisibilityEngineSamplerCalls(difficulty)

InitSamplerCalls ==
    /\ scenario = "randomInt"
    /\ InitSessions
    /\ \E engine \in Engines, difficulty \in EngineDifficulties :
          call = [pc |-> "entry", engine |-> engine,
                  difficulty |-> difficulty, sampler |-> null]

\* the engine runs up to one of its calls of the sampler
randomInt_call ==
    /\ scenario = "randomInt"
    /\ call.pc = "entry"
    /\ \E sampler \in SamplerCalls(call.engine, call.difficulty) :
          call' = [call EXCEPT !.pc = "sampling", !.sampler = Some(sampler)]
    /\ UNCHANGED ret
    /\ EngineFrame

NextSamplerCalls == randomInt_call

SpecSamplerCalls == InitSamplerCalls /\ [][NextSamplerCalls]_vars

(* chainEngine.ts: generateChain(config), one iteration of its loop at a    *)
(* time, on the configuration of generateDefaultChain                       *)

\* the configuration generateDefaultChain passes to generateChain
DefaultChainConfig(difficulty) ==
    [minLength |-> 10, maxLength |-> 20, difficulty |-> difficulty]

InitChainLoop ==
    /\ scenario = "generateChain step by step"
    /\ InitSessions
    /\ \E difficulty \in EngineDifficulties :
          call = [pc |-> "entry", config |-> DefaultChainConfig(difficulty)]

\* up to the push of the first step; the array steps is only appended to, so
\* the frame keeps the step pushed last
generateChain_firstStep ==
    /\ scenario = "generateChain step by step"
    /\ call.pc = "entry"
    /\ \E totalLength \in randomInt(call.config.minLength,
                                     call.config.maxLength) :
       \E pair \in generateStartingPair(call.config.difficulty) :
          call' = [pc |-> "loop", config |-> call.config,
                   totalLength |-> totalLength, i |-> 2,
                   currentResult |-> pair.first + pair.second,
                   pushed |-> [stepNumber |-> 1,
                               previousResult |-> pair.first,
                               addend |-> pair.second,
                               result |-> pair.first + pair.second]]
    /\ ret' = null
    /\ EngineFrame

\* one iteration of "for (let i = 2; i <= totalLength; i++)"
generateChain_nextStep ==
    /\ scenario = "generateChain step by step"
    /\ call.pc = "loop"
    /\ call.i <= call.totalLength
    /\ LET addendRange == getAddendRange(call.i, call.config.difficulty) IN
       \E addend \in randomInt(addendRange.min, addendRange.max) :
          call' = [call EXCEPT
                     !.i = @ + 1,
                     !.currentResult = @ + addend,
                     !.pushed = [stepNumber |-> call.i,
                                 previousResult |-> call.currentResult,
                                 addend |-> addend,
                                 result |-> call.currentResult + addend]]
    /\ ret' = null
    /\ EngineFrame

\* the loop is left and the chain returned (without its steps here)
generateChain_return ==
    /\ scenario = "generateChain step by step"
    /\ call.pc = "loop"
    /\ call.i > call.totalLength
    /\ call' = [call EXCEPT !.pc = "returned"]
    /\ ret' = Some([totalLength |-> call.totalLength,
                    finalResult |-> call.currentResult,
                    difficulty |-> call.config.difficulty])
    /\ EngineFrame

NextChainLoop ==
    \/ generateChain_firstStep
    \/ generateChain_nextStep
    \/ generateChain_return

SpecChainLoop == InitChainLoop /\ [][NextChainLoop]_vars

-----------------------------------------------------------------------------
(* Claims *)

\* C1 (as stated): an auto-advance callback that fires after resetGame is a
\* no-op: in MathGame, PercentageGame and RatioGame the current problem is
\* null whenever the game is idle.
C1_IdleProblemStaysNull ==
    /\ ~MathGame.isPlaying => IsNull(MathGame.problem)
    /\ ~PercentageGame.isPlaying => IsNull(PercentageGame.problem)
    /\ ~RatioGame.isPlaying => IsNull(RatioGame.problem)

\* C2 (as stated): in the chain and the divisibility store, totalGamesPlayed
\* increases by at most 1 between a startGame and the next startGame or
\* resetGame.
C2_FoldedOncePerSession ==
    \A store \in DOMAIN sessionFolds :
       IsNull(sessionFolds[store]) \/ Val(sessionFolds[store]) <= 1

DivisibilityPhases ==
    {"setup", "divisibility", "remainder", "feedback", "summary"}

DocumentedDivisibilityEdges ==
    { <<"setup", "divisibility">>, <<"divisibility", "remainder">>,
      <<"remainder", "feedback">>, <<"feedback", "divisibility">>,
      <<"feedback", "summary">>, <<"summary", "setup">> }

\* C3 (as stated): the phase of the divisibility store changes only along the
\* six documented edges.
C3_DocumentedEdgesOnly ==
    [][useDivisibilityStore'.phase # useDivisibilityStore.phase
       => <<useDivisibilityStore.phase, useDivisibilityStore'.phase>>
            \in DocumentedDivisibilityEdges]_vars

\* C3 (amended): the phase of the divisibility store changes only as its
\* actions allow: startGame, and nextProblem below maxProblems, enter
\* divisibility from any phase; submitDivisibilityAnswer enters remainder from
\* any phase that has a current problem; submitRemainderAnswer enters feedback
\* from any phase that has a current problem and a divisibility answer;
\* endGame, and nextProblem at maxProblems, enter summary from any phase;
\* resetGame enters setup from any phase.  So every edge occurs except
\* setup->remainder, setup->feedback and divisibility->feedback.
C3_PhaseEdges ==
    [][LET old == useDivisibilityStore
           new == useDivisibilityStore'
       IN  new.phase # old.phase =>
             /\ new.phase \in DivisibilityPhases
             /\ new.phase = "remainder" => ~IsNull(old.currentProblem)
             /\ new.phase = "feedback" =>
                   /\ ~IsNull(old.currentProblem)
                   /\ ~IsNull(old.userDivisibilityAnswer)
             /\ <<old.phase, new.phase>> \notin
                   { <<"setup", "remainder">>, <<"setup", "feedback">>,
                     <<"divisibility", "feedback">> }]_vars

\* C3 witness: a session ended from the divisibility or the remainder phase:
\* summary is reached with an empty result log
C3_SummaryWithoutFeedback ==
    /\ useDivisibilityStore.phase = "summary"
    /\ useDivisibilityStore.results = <<>>
    /\ ~IsNull(useDivisibilityStore.currentProblem)
    /\ sessionFolds.useDivisibilityStore = Some(1)

ChainPhases == {"setup", "playing", "review", "complete"}

\* the session has something to fold: a chain and at least one logged step
HasLoggedSteps(state) == ~IsNull(state.chain) /\ Len(state.stepResults) > 0

DocumentedChainEdges ==
    { <<"setup", "playing">>, <<"playing", "review">>,
      <<"review", "complete">>, <<"complete", "setup">> }

C6_SubmitWithoutProblemIsNoOp ==
    [][/\ (useGameStore_submitAnswer /\ IsNull(useGameStore.currentQuestion))
          => ret' = Some(FALSE) /\ useGameStore' = useGameStore
       /\ (useChainStore_submitAnswer /\ IsNull(useChainStore.chain))
          => ret' = Some(FALSE) /\ useChainStore' = useChainStore
       /\ ((useDivisibilityStore_submitDivisibilityAnswer
            \/ useDivisibilityStore_submitRemainderAnswer)
           /\ IsNull(useDivisibilityStore.currentProblem))
          => ret' = Some(FALSE)
             /\ useDivisibilityStore' = useDivisibilityStore]_vars

\* C7 (as stated): in every store, right after startGame the running streak
\* is 0 and the result log is empty, a current problem is present and the
\* session-start time is set.
C7_StartGameResetsSession ==
    [][/\ useGameStore_startGame
          => /\ useGameStore'.stats.currentStreak = 0
             /\ useGameStore'.stats.sessionTimes = <<>>
             /\ ~IsNull(useGameStore'.currentQuestion)
             /\ ~IsNull(useGameStore'.questionStartTime)
       /\ useChainStore_startGame
          => /\ useChainStore'.stepResults = <<>>
             /\ useChainStore'.currentStepIndex = 0
             /\ ~IsNull(useChainStore'.chain)
             /\ useChainStore'.gameStartTime = Some(now)
       /\ useDivisibilityStore_startGame
          => /\ useDivisibilityStore'.results = <<>>
             /\ useDivisibilityStore'.problemCount = 1
             /\ ~IsNull(useDivisibilityStore'.currentProblem)
             /\ useDivisibilityStore'.gameStartTime = Some(now)]_vars

\* C8: on every answer submission the running streak becomes 0 if the answer
\* is incorrect and the old streak + 1 if it is correct: stats.currentStreak
\* of useGameStore on submitAnswer (called directly or by MathGame's
\* handleAnswer), currentStreak of PercentageGame and of RatioGame on
\* handleAnswer.
C8_StreakFollowsAnswer ==
    [][/\ (useGameStore_submitAnswer \/ MathGame_handleAnswer)
          => useGameStore'.stats.currentStreak
               = IF ret' = Some(TRUE)
                 THEN useGameStore.stats.currentStreak + 1 ELSE 0
       /\ PercentageGame_handleAnswer
          => PercentageGame'.currentStreak
               = IF ret' = Some(TRUE)
                 THEN PercentageGame.currentStreak + 1 ELSE 0
       /\ RatioGame_handleAnswer
          => RatioGame'.currentStreak
               = IF ret' = Some(TRUE)
                 THEN RatioGame.currentStreak + 1 ELSE 0]_vars

\* C8 witness: a streak of 1 was reset to 0 by an incorrect answer
C8_StreakResetByWrongAnswer ==
    \/ /\ scenario = "useGameStore"
       /\ ret = Some(FALSE)
       /\ useGameStore.stats.correctAnswers = 1
       /\ useGameStore.stats.totalQuestions = 2
       /\ useGameStore.stats.bestStreak = 1
       /\ useGameStore.stats.currentStreak = 0
    \/ /\ scenario = "RatioGame"
       /\ ret = Some(FALSE)
       /\ RatioGame.sessionCorrect = 1
       /\ RatioGame.questionCount = 2
       /\ RatioGame.currentStreak = 0

\* C9: no action other than resetStats of useGameStore decreases a persisted
\* aggregate of a store.
C9_AggregatesNeverDecrease ==
    [][/\ ~useGameStore_resetStats
          => /\ useGameStore'.stats.totalQuestions
                  >= useGameStore.stats.totalQuestions
             /\ useGameStore'.stats.correctAnswers
                  >= useGameStore.stats.correctAnswers
             /\ useGameStore'.stats.bestStreak
                  >= useGameStore.stats.bestStreak
       /\ useChainStore'.totalGamesPlayed >= useChainStore.totalGamesPlayed
       /\ useChainStore'.totalChainsCompleted
            >= useChainStore.totalChainsCompleted
       /\ useChainStore'.bestScore >= useChainStore.bestScore
       /\ useDivisibilityStore'.totalGamesPlayed
            >= useDivisibilityStore.totalGamesPlayed
       /\ useDivisibilityStore'.totalProblemsAttempted
            >= useDivisibilityStore.totalProblemsAttempted
       /\ useDivisibilityStore'.totalCorrectDivisibility
            >= useDivisibilityStore.totalCorrectDivisibility
       /\ useDivisibilityStore'.totalCorrectRemainder
            >= useDivisibilityStore.totalCorrectRemainder
       /\ useDivisibilityStore'.bestAccuracy
            >= useDivisibilityStore.bestAccuracy]_vars

\* C9 witness: the aggregates of a folded game are still there after
\* resetGame, in the chain store and in the divisibility store
C9_AggregatesSurviveResetGame ==
    \/ /\ useChainStore.phase = "setup"
       /\ IsNull(useChainStore.chain)
       /\ useChainStore.totalGamesPlayed = 1
       /\ useChainStore.bestScore > 0
    \/ /\ useDivisibilityStore.phase = "setup"
       /\ IsNull(useDivisibilityStore.currentProblem)
       /\ useDivisibilityStore.totalProblemsAttempted = 1
       /\ useDivisibilityStore.bestAccuracy > 0

\* C10: every best field is the maximum of its previous value and the value
\* folded in: bestScore and this session's finalScore when the chain store
\* folds a game, bestAccuracy and this session's rounded accuracy when the
\* divisibility store folds a game, bestStreak and the new currentStreak on
\* submitAnswer.
C10_BestIsMax ==
    [][/\ useChainStore'.totalGamesPlayed # useChainStore.totalGamesPlayed
          => useChainStore'.bestScore
               = Max(useChainStore.bestScore,
                     chainSessionStats(useChainStore, now).finalScore)
       /\ useDivisibilityStore'.totalGamesPlayed
             # useDivisibilityStore.totalGamesPlayed
          => useDivisibilityStore'.bestAccuracy
               = Max(useDivisibilityStore.bestAccuracy,
                     divSessionAccuracy(useDivisibilityStore.results))
       /\ (useGameStore_submitAnswer \/ MathGame_handleAnswer)
          => useGameStore'.stats.bestStreak
               = Max(useGameStore.stats.bestStreak,
                     useGameStore'.stats.currentStreak)]_vars

\* C10 witness: a second game with a lower value left the best field at the
\* first game's value
C10_BestKeptOverLowerSession ==
    \/ /\ useChainStore.totalGamesPlayed = 2
       /\ Len(useChainStore.history) = 2
       /\ useChainStore.history[2].stats.finalScore
            < useChainStore.history[1].stats.finalScore
       /\ useChainStore.bestScore = useChainStore.history[1].stats.finalScore
    \/ /\ useDivisibilityStore.totalGamesPlayed = 2
       /\ useDivisibilityStore.phase = "summary"
       /\ divSessionAccuracy(useDivisibilityStore.results)
            < useDivisibilityStore.bestAccuracy

\* C11: resetGame of the chain store and of the divisibility store sets the
\* phase to setup, clears the current chain or problem, the counters, the
\* result log and the timestamps, and leaves the difficulty, the
\* configuration toggles and every persisted aggregate as they were.
C11_ResetGameFrame ==
    [][ /\ useChainStore_resetGame =>
            /\ useChainStore'.phase = "setup"
            /\ useChainStore'.chain = null
            /\ useChainStore'.currentStepIndex = 0
            /\ useChainStore'.stepResults = <<>>
            /\ useChainStore'.gameStartTime = null
            /\ useChainStore'.stepStartTime = null
            /\ \A f \in {"difficulty", "totalGamesPlayed",
                          "totalChainsCompleted", "bestScore", "history"} :
                   useChainStore'[f] = useChainStore[f]
        /\ useDivisibilityStore_resetGame =>
            /\ useDivisibilityStore'.phase = "setup"
            /\ useDivisibilityStore'.currentProblem = null
            /\ useDivisibilityStore'.problemCount = 0
            /\ useDivisibilityStore'.results = <<>>
            /\ useDivisibilityStore'.gameStartTime = null
            /\ useDivisibilityStore'.problemStartTime = null
            /\ \A f \in {"difficulty", "acceptNegativeRemainders",
                          "maxProblems", "totalGamesPlayed",
                          "totalProblemsAttempted",
                          "totalCorrectDivisibility",
                          "totalCorrectRemainder", "bestAccuracy"} :
                   useDivisibilityStore'[f] = useDivisibilityStore[f]
      ]_vars

\* a store reset after a folded game: the session is cleared while the
\* aggregates and the changed settings are still there
C11_ResetAfterFoldedGame ==
    \/ /\ scenario = "useChainStore"
       /\ IsNull(sessionFolds.useChainStore)
       /\ useChainStore.phase = "setup"
       /\ IsNull(useChainStore.chain)
       /\ useChainStore.totalGamesPlayed > 0
       /\ useChainStore.history # <<>>
       /\ useChainStore.difficulty # useChainStoreInit.difficulty
    \/ /\ scenario = "useDivisibilityStore"
       /\ IsNull(sessionFolds.useDivisibilityStore)
       /\ useDivisibilityStore.phase = "setup"
       /\ IsNull(useDivisibilityStore.currentProblem)
       /\ useDivisibilityStore.bestAccuracy > 0
       /\ ~useDivisibilityStore.acceptNegativeRemainders
       /\ useDivisibilityStore.difficulty # useDivisibilityStoreInit.difficulty

\* C12: every problem returned by generateDivisibilityProblem, at every
\* difficulty 1-5 and on every path (exact, resampled, forced offset after
\* 50 divisible draws), satisfies dividend = divisor * quotient + remainder,
\* 0 <= remainder < divisor, negativeRemainder = remainder - divisor when
\* remainder > 0 and 0 otherwise, and isDivisible <=> remainder = 0.
C12_ProblemIsConsistent ==
    (scenario = "generateDivisibilityProblem" /\ call.pc = "returned") =>
        LET problem == Val(ret) IN
        /\ problem.dividend
              = problem.divisor * problem.quotient + problem.remainder
        /\ 0 <= problem.remainder
        /\ problem.remainder < problem.divisor
        /\ problem.negativeRemainder
              = (IF problem.remainder > 0
                 THEN problem.remainder - problem.divisor ELSE 0)
        /\ problem.isDivisible <=> (problem.remainder = 0)

\* a problem returned through the forced offset: 50 draws were made and the
\* dividend lies above the range the draws come from
C12_ReturnedByForcedOffset ==
    /\ scenario = "generateDivisibilityProblem"
    /\ call.pc = "returned"
    /\ call.attempts = RemainderMaxAttempts
    /\ Val(ret).dividend >
          divisibilityDifficultyRanges[call.config.difficulty]
              .dividendRange.max
    /\ Val(ret).remainder > 0

\* C13: validateRemainderAnswer(problem, u, acceptNegative) returns true
\* exactly when u = problem.remainder, or acceptNegative and
\* u = problem.negativeRemainder, or the problem is exactly divisible and
\* u = 0; with acceptNegative = false the negative remainder of a problem
\* that is not divisible is rejected.
C13_RemainderAccepted ==
    (scenario = "validateRemainderAnswer" /\ call.pc = "returned") =>
        /\ Val(ret) <=>
              \/ call.userRemainder = call.problem.remainder
              \/ /\ call.acceptNegative
                 /\ call.userRemainder = call.problem.negativeRemainder
              \/ call.problem.isDivisible /\ call.userRemainder = 0
        /\ ( /\ ~call.acceptNegative
             /\ ~call.problem.isDivisible
             /\ call.userRemainder = call.problem.negativeRemainder )
           => ~Val(ret)

\* the negative remainder of a problem that is not divisible, rejected
\* because negative remainders are not accepted
C13_NegativeRemainderRejected ==
    /\ scenario = "validateRemainderAnswer"
    /\ call.pc = "returned"
    /\ ~call.acceptNegative
    /\ ~call.problem.isDivisible
    /\ call.problem.remainder > 0
    /\ call.userRemainder = call.problem.negativeRemainder
    /\ ret = Some(FALSE)

\* C14: every chain returned by generateChain(minLength, maxLength,
\* difficulty) has totalLength = number of steps, within
\* [minLength, maxLength]; steps[i].result = steps[i].previousResult +
\* steps[i].addend for every i; steps[i+1].previousResult = steps[i].result;
\* and finalResult is the result of the last step.
C14_ChainIsLinked ==
    (scenario = "generateChain" /\ call.pc = "returned") =>
        LET chain == Val(ret)
            steps == chain.steps
        IN  /\ chain.totalLength = Len(steps)
            /\ chain.totalLength >= call.config.minLength
            /\ chain.totalLength <= call.config.maxLength
            /\ \A i \in 1..Len(steps) :
                  steps[i].result = steps[i].previousResult + steps[i].addend
            /\ \A i \in 1..(Len(steps) - 1) :
                  steps[i + 1].previousResult = steps[i].result
            /\ chain.finalResult = steps[Len(steps)].result

\* a returned chain that runs into the second band of addends, from a
\* configuration that leaves the length open
C14_ChainIntoSecondBand ==
    /\ scenario = "generateChain"
    /\ call.pc = "returned"
    /\ call.config.minLength < call.config.maxLength
    /\ Len(Val(ret).steps) > 5
    /\ Val(ret).steps[6].addend
          >= getAddendRange(6, call.config.difficulty).min
    /\ Val(ret).finalResult > Val(ret).steps[1].result

\* C15: for every problem returned by generateRatioComparison that did not
\* take the fallback path, the percentage difference
\* (larger - smaller) / smaller * 100 lies within
\* [minDiffPercent, maxDiffPercent] of the requested difficulty, and
\* ratioA.value differs from ratioB.value.
C15_DifferenceWithinLimits ==
    ( /\ scenario = "generateRatioComparison"
      /\ call.pc = "returned"
      /\ call.attempts < maxAttempts ) =>
        LET problem == Val(ret)
            config == RATIO_DIFFICULTY_CONFIG[call.difficulty]
            a == problem.ratioA.numerator * problem.ratioB.denominator
            b == problem.ratioB.numerator * problem.ratioA.denominator
            larger == IF a >= b THEN a ELSE b
            smaller == IF a >= b THEN b ELSE a
        IN  /\ 1000 * (larger - smaller) >= config.minDiffPercent * smaller
            /\ 1000 * (larger - smaller) <= config.maxDiffPercent * smaller
            /\ a # b

\* a pair accepted after at least one rejected attempt and returned swapped
C15_AcceptedAfterResample ==
    /\ scenario = "generateRatioComparison"
    /\ call.pc = "returned"
    /\ call.attempts > 1
    /\ call.attempts < maxAttempts
    /\ Val(ret).correctAnswer = "B"
    /\ Val(ret).ratioA.denominator # Val(ret).ratioB.denominator

\* C16: in every problem returned by generateRatioComparison, including one
\* built by the fallback and after the random swap, the two ratio values are
\* never equal and correctAnswer names the ratio with the strictly larger
\* value.
C16_LargerRatioNamed ==
    (scenario = "generateRatioComparison" /\ call.pc = "returned") =>
        LET problem == Val(ret)
            a == problem.ratioA.numerator * problem.ratioB.denominator
            b == problem.ratioB.numerator * problem.ratioA.denominator
        IN  /\ a # b
            /\ problem.correctAnswer = "A" => a > b
            /\ problem.correctAnswer = "B" => b > a

\* C17: every problem returned by generatePercentageProblem has an answer
\* that is never exactly 25, 50, 75 or 100, is at least 15 when
\* difficulty < 3, and is below 100 (numerator < denominator) at the
\* difficulties where allowOver100 is false.
C17_AnswerNotTrivial ==
    ( /\ scenario = "generatePercentageProblem over its ranges"
      /\ call.pc = "returned" ) =>
        LET problem == Val(ret)
            config == PERCENTAGE_DIFFICULTY_CONFIG[call.difficulty]
        IN  /\ problem.answer \notin {2500, 5000, 7500, 10000}
            /\ call.difficulty < 3 => problem.answer >= 1500
            /\ ~config.allowOver100 =>
                  /\ problem.answer < 10000
                  /\ problem.numerator < problem.denominator

\* a returned problem on the lower limit of a low difficulty, 15 percent
C17_ReturnedOnLowerLimit ==
    /\ scenario = "generatePercentageProblem over its ranges"
    /\ call.pc = "returned"
    /\ call.difficulty < 3
    /\ Val(ret).answer = 1500

\* C18: generatePercentageProblem never loops forever: at every difficulty
\* 1-5 its rejection loop ends after a bounded number of resamples, whatever
\* values the random source yields.
C18_RejectionLoopEnds ==
    <>(scenario = "generatePercentageProblem" => call.pc = "returned")

\* C19: generateRatioComparison makes at most 100 sampling attempts and
\* generateRemainderProblem at most 50 dividend draws; after that each
\* returns a problem through its fallback construction, for any sequence of
\* random draws: the counters never pass their limits, no further draw is
\* made at the limit, the function can always take its next step until it
\* has returned, the pair returned after 100 attempts is the first ratio with
\* its numerator scaled up, and the problem returned after 50 draws is not
\* divisible.
C19_SamplingIsBounded ==
    /\ scenario = "generateRatioComparison" =>
          /\ call.attempts <= 100
          /\ call.pc = "loop" =>
                /\ call.attempts < 100
                /\ ENABLED generateRatioComparison_attempt
          /\ call.pc = "after" => ENABLED generateRatioComparison_return
          /\ (call.pc = "returned" /\ call.attempts = 100) =>
                LET a == Val(ret).ratioA
                    b == Val(ret).ratioB
                IN  /\ a.denominator = b.denominator
                    /\ Abs(a.numerator - b.numerator)
                          <= 1 + (Min(a.numerator, b.numerator)
                                    * RATIO_DIFFICULTY_CONFIG[call.difficulty]
                                          .minDiffPercent) \div 1000
    /\ scenario = "generateDivisibilityProblem" =>
          /\ call.attempts <= 50
          /\ call.pc = "draw" =>
                /\ call.attempts < 50
                /\ ENABLED generateRemainderProblem_draw
          /\ call.pc = "adjust" => ENABLED generateRemainderProblem_return
          /\ (call.pc = "returned" /\ call.attempts = 50) =>
                /\ Val(ret).remainder > 0
                /\ Val(ret).dividend % Val(ret).divisor # 0

\* both fallbacks taken: a pair returned after 100 attempts, or a problem
\* returned after 50 divisible draws with its dividend moved off the multiple
C19_ReturnedAfterLastAttempt ==
    \/ /\ scenario = "generateRatioComparison"
       /\ call.pc = "returned"
       /\ call.attempts = maxAttempts
    \/ /\ scenario = "generateDivisibilityProblem"
       /\ call.pc = "returned"
       /\ call.attempts = RemainderMaxAttempts
       /\ Val(ret).dividend >
             divisibilityDifficultyRanges[call.config.difficulty]
                 .dividendRange.max

\* C20: isPercentageCorrect(u, a, decimalPlaces) accepts exactly when
\* |u - a| <= tolerance, with tolerance 0.05 for 1-decimal problems and 0.005
\* for 2-decimal problems, the boundary included: for a = 65.43 with 2
\* decimals, 65.435 and 65.428 are accepted and 65.50 is rejected.
C20_AcceptedWithinTolerance ==
    (scenario = "isPercentageCorrect" /\ call.pc = "returned") =>
        /\ Val(ret) <=>
              Abs(call.userAnswer - call.correctAnswer)
                 <= (IF call.decimalPlaces = 1 THEN 50 ELSE 5)
        /\ (call.correctAnswer = 65430 /\ call.decimalPlaces = 2) =>
              /\ call.userAnswer \in {65435, 65428} => Val(ret)
              /\ call.userAnswer = 65500 => ~Val(ret)
\* C21 (as the code has it): for a percentage problem with two decimal
\* places an input one hundredth away from the answer is outside the
\* tolerance of 0.005 and is rejected by isPercentageCorrect; for the answer
\* 65.43 the input 65.44 is rejected.
C21_OneHundredthAwayRejected ==
    (/\ scenario = "isPercentageCorrect"
     /\ call.pc = "returned"
     /\ call.decimalPlaces = 2
     /\ Abs(call.userAnswer - call.correctAnswer) = 10) => ~Val(ret)

C21_Typed6544For6543 ==
    /\ scenario = "isPercentageCorrect"
    /\ call.pc = "returned"
    /\ call.decimalPlaces = 2
    /\ call.correctAnswer = 65430
    /\ call.userAnswer = 65440
    /\ ret = Some(FALSE)

\* C21 (as stated): for a percentage problem with answer 65.43 and
\* decimalPlaces = 2, the input 65.44 is within tolerance and is accepted by
\* isPercentageCorrect.
C21_6544AcceptedFor6543 ==
    (/\ scenario = "isPercentageCorrect"
     /\ call.pc = "returned"
     /\ call.decimalPlaces = 2
     /\ call.correctAnswer = 65430
     /\ call.userAnswer = 65440) => Val(ret)
\* C22: for every difficulty 1-5, generateAddition returns a problem with
\* answer = operand1 + operand2, operand1 in [10^(d1-1), 10^d1 - 1] and
\* operand2 in [10^(d2-1), 10^d2 - 1] for that level's digit counts (d1, d2),
\* and difficulty equal to the requested one.
C22_AdditionWithinDigits ==
    (/\ scenario = "mathEngine"
     /\ call.operation = "addition"
     /\ call.pc = "returned") =>
        LET problem == Val(ret)
            d1 == <<2, 2, 3, 3, 4>>[call.difficulty]
            d2 == <<2, 3, 3, 4, 5>>[call.difficulty]
        IN  /\ problem.answer = problem.operand1 + problem.operand2
            /\ problem.operand1 >= Pow10(d1 - 1)
            /\ problem.operand1 <= Pow10(d1) - 1
            /\ problem.operand2 >= Pow10(d2 - 1)
            /\ problem.operand2 <= Pow10(d2) - 1
            /\ problem.difficulty = call.difficulty
            /\ problem.operation = "addition"

C22_LargestOperandsAtLevel5 ==
    /\ scenario = "mathEngine"
    /\ call.operation = "addition"
    /\ call.pc = "returned"
    /\ call.difficulty = 5
    /\ Val(ret).operand1 = 9999
    /\ Val(ret).operand2 = 99999
    /\ Val(ret).answer = 109998

\* C23: for every difficulty 1-5, generateSubtraction returns operand1 = max
\* and operand2 = min of the two sampled values, with
\* answer = operand1 - operand2 >= 0.
C23_LargerMinusSmaller ==
    (/\ scenario = "mathEngine"
     /\ call.operation = "subtraction"
     /\ call.pc = "returned") =>
        LET problem == Val(ret)
            num1 == Val(call.num1)
            num2 == Val(call.num2)
        IN  /\ problem.operand1 = (IF num1 >= num2 THEN num1 ELSE num2)
            /\ problem.operand2 = (IF num1 >= num2 THEN num2 ELSE num1)
            /\ problem.answer = problem.operand1 - problem.operand2
            /\ problem.answer >= 0

C23_SecondSampleIsLarger ==
    /\ scenario = "mathEngine"
    /\ call.operation = "subtraction"
    /\ call.pc = "returned"
    /\ Val(call.num1) < Val(call.num2)
    /\ Val(ret).operand1 = Val(call.num2)
    /\ Val(ret).answer > 0

\* C24: generateSubtraction always ensures the result is positive: at every
\* difficulty 1-5 the answer of a generated subtraction problem is strictly
\* greater than 0.
C24_AnswerStrictlyPositive ==
    (/\ scenario = "mathEngine"
     /\ call.operation = "subtraction"
     /\ call.pc = "returned") => Val(ret).answer > 0
\* C25 (as the code has it): calculateChainStats(total, correct, totalTimeMs,
\* completed) returns finalScore = 10*correct + round(2*accuracy) + speedBonus
\* + (completed ? 50 : 0), where accuracy = correct/total*100,
\* avg = totalTimeMs/total/1000 seconds, and speedBonus is round((5 - avg)*10)
\* if avg < 5 and 0 otherwise, except that at an average of exactly 3.45,
\* 3.95, 4.15, 4.45, 4.65 or 4.95 seconds the doubles round the half down and
\* the bonus is one less; with total = 0 both accuracy and avg are 0, so the
\* speed bonus is 50.
C25_FinalScoreInDoubles ==
    (scenario = "calculateChainStats" /\ call.pc = "returned") =>
        LET total == call.totalSteps
            correct == call.correctSteps
            ms == call.totalTimeMs
            \* accuracy is 100 * correct / total, avg is ms / (1000 * total)
            accuracyBonus ==
                IF total = 0 THEN 0
                ELSE (400 * correct + total) \div (2 * total)
            halfRoundedDown ==
                total > 0 /\ \E a \in {3450, 3950, 4150, 4450, 4650, 4950} :
                                ms = a * total
            speedBonus ==
                IF total = 0 THEN 50
                ELSE IF ms >= 5000 * total THEN 0
                ELSE ((2 * (5000 * total - ms) + 100 * total)
                         \div (200 * total))
                     - (IF halfRoundedDown THEN 1 ELSE 0)
        IN  /\ Val(ret).finalScore =
                   10 * correct + accuracyBonus + speedBonus
                   + (IF call.completed THEN 50 ELSE 0)
            /\ total = 0 => /\ Val(ret).accuracy = 0
                            /\ Val(ret).averageTimePerStep = 0

C25_HalfRoundedDown ==
    /\ scenario = "calculateChainStats"
    /\ call.pc = "returned"
    /\ call.totalSteps = 2
    /\ call.correctSteps = 1
    /\ call.totalTimeMs = 6900
    /\ ~call.completed
    /\ Val(ret).finalScore = 125

\* C25 (as stated): calculateChainStats(total, correct, totalTimeMs,
\* completed) returns finalScore = 10*correct + round(2*accuracy) + speedBonus
\* + (completed ? 50 : 0), where accuracy = correct/total*100,
\* avg = totalTimeMs/total/1000 seconds, and speedBonus = round((5 - avg)*10)
\* if avg < 5 and 0 otherwise; with total = 0 both accuracy and avg are 0.
C25_FinalScoreExact ==
    (scenario = "calculateChainStats" /\ call.pc = "returned") =>
        LET total == call.totalSteps
            correct == call.correctSteps
            ms == call.totalTimeMs
            accuracyBonus ==
                IF total = 0 THEN 0
                ELSE (400 * correct + total) \div (2 * total)
            speedBonus ==
                IF total = 0 THEN 50
                ELSE IF ms >= 5000 * total THEN 0
                ELSE (2 * (5000 * total - ms) + 100 * total)
                        \div (200 * total)
        IN  /\ Val(ret).finalScore =
                   10 * correct + accuracyBonus + speedBonus
                   + (IF call.completed THEN 50 ELSE 0)
            /\ total = 0 => /\ Val(ret).accuracy = 0
                            /\ Val(ret).averageTimePerStep = 0
\* C26: every call of a uniform integer sampler made by any engine, at every
\* difficulty 1-5 and on every path (the percentage numerator cap
\* min(numMax, denominator - 1), the exact-quotient range
\* max(2, minQ)..max(3, maxQ), the divisibility fallback offset
\* 1..divisor - 1, the ratio target offset), is made with min <= max.
C26_SamplerArgumentsOrdered ==
    (scenario = "randomInt" /\ call.pc = "sampling") =>
        Val(call.sampler).min <= Val(call.sampler).max

C26_OffsetForDivisorTwo ==
    /\ scenario = "randomInt"
    /\ call.pc = "sampling"
    /\ call.engine = "divisibilityEngine"
    /\ Val(call.sampler).site = "offset"
    /\ Val(call.sampler).given = 2
    /\ Val(call.sampler).min = 1
    /\ Val(call.sampler).max = 1
\* C27: the chain store's history never holds more than 20 entries; when a
\* 21st game ends the oldest entry is dropped and the remaining entries keep
\* their order, newest last.
C27_HistoryKeepsLastTwenty ==
    [][LET old == useChainStore.history
           new == useChainStore'.history
           ended == useChainStore'.totalGamesPlayed
                       > useChainStore.totalGamesPlayed
       IN  /\ Len(old) <= 20
           /\ Len(new) <= 20
           /\ ~ended => new = old
           /\ ended =>
                 LET kept == IF Len(old) = 20 THEN Tail(old) ELSE old IN
                 /\ Len(new) = Len(kept) + 1
                 /\ SubSeq(new, 1, Len(kept)) = kept
                 /\ new[Len(new)].date = now
                 /\ \A i \in 1..Len(kept) : kept[i].date <= now]_vars

C27_OldestDroppedAtTwentyFirst ==
    /\ scenario = "useChainStore"
    /\ ~IsNull(call)
    /\ call.storage.totalGamesPlayed = 20
    /\ useChainStore.totalGamesPlayed = 21
    /\ Len(useChainStore.history) = 20
    /\ useChainStore.history[1] = call.storage.history[2]
    /\ useChainStore.history[19] = call.storage.history[20]
    /\ useChainStore.history[20].date >= TickMs
\* C28: in the divisibility store each problem contributes at most one entry
\* to results, and only after a divisibility answer for that same problem was
\* recorded: in every reachable state results.length <= problemCount and
\* every entry has a non-null userDivisibilityAnswer.
C28_OneResultPerProblem ==
    scenario \in DivScenarios =>
        /\ Len(useDivisibilityStore.results)
              <= useDivisibilityStore.problemCount
        /\ \A i \in 1..Len(useDivisibilityStore.results) :
              useDivisibilityStore.results[i].userDivisibilityAnswer
                 \in BOOLEAN
\* C29: session configuration (difficulty, and for divisibility also
\* maxProblems and acceptNegativeRemainders) changes only between sessions or
\* at setup: while a session is active (phase not setup / summary /
\* complete) no action changes it, so every problem of one session is
\* generated and validated under the same configuration.
C29_ConfigurationFixedInSession ==
    [][/\ useChainStore.phase \in {"playing", "review"} =>
             useChainStore'.difficulty = useChainStore.difficulty
       /\ useDivisibilityStore.phase
             \in {"divisibility", "remainder", "feedback"} =>
             /\ useDivisibilityStore'.difficulty
                   = useDivisibilityStore.difficulty
             /\ useDivisibilityStore'.maxProblems
                   = useDivisibilityStore.maxProblems
             /\ useDivisibilityStore'.acceptNegativeRemainders
                   = useDivisibilityStore.acceptNegativeRemainders
       /\ (useGameStore.isPlaying \/ MathGame.isPlaying) =>
             /\ useGameStore'.difficulty = useGameStore.difficulty
             /\ useGameStore'.mode = useGameStore.mode
       /\ PercentageGame.isPlaying =>
             PercentageGame'.difficulty = PercentageGame.difficulty
       /\ RatioGame.isPlaying =>
             RatioGame'.difficulty = RatioGame.difficulty
       /\ (useChainStore'.phase \in {"playing", "review"}
           /\ ~IsNull(useChainStore'.chain)) =>
             Val(useChainStore'.chain).difficulty = useChainStore'.difficulty
       /\ (useDivisibilityStore'.phase
              \in {"divisibility", "remainder", "feedback"}
           /\ ~IsNull(useDivisibilityStore'.currentProblem)) =>
             Val(useDivisibilityStore'.currentProblem).difficulty
                = useDivisibilityStore'.difficulty
       /\ (MathGame'.isPlaying /\ ~IsNull(MathGame'.problem)) =>
             Val(MathGame'.problem).difficulty = useGameStore'.difficulty
       /\ (PercentageGame'.isPlaying /\ ~IsNull(PercentageGame'.problem)) =>
             Val(PercentageGame'.problem).difficulty
                = PercentageGame'.difficulty
       /\ (RatioGame'.isPlaying /\ ~IsNull(RatioGame'.problem)) =>
             Val(RatioGame'.problem).difficulty = RatioGame'.difficulty]_vars
\* C30: generateRatioComparison replaces the sampled pair by the fallback
\* pair (A's numerator scaled by 1 + minDiffPercent/100 over A's denominator)
\* only when none of the 100 attempts produced an acceptable pair; a pair
\* accepted on any attempt, including the 100th, is returned unchanged (up to
\* the A/B swap).
C30_FallbackOnlyWhenExhausted ==
    [][(/\ scenario = "generateRatioComparison"
        /\ call.pc = "after"
        /\ call'.pc = "returned") =>
          LET sampledA == Val(call.ratioA)
              sampledB == Val(call.ratioB)
              config == RATIO_DIFFICULTY_CONFIG[call.difficulty]
              a == sampledA.numerator * sampledB.denominator
              b == sampledB.numerator * sampledA.denominator
              larger == IF a >= b THEN a ELSE b
              smaller == IF a >= b THEN b ELSE a
              \* the difference lies strictly between the two limits
              acceptable ==
                  /\ 1000 * (larger - smaller) > config.minDiffPercent * smaller
                  /\ 1000 * (larger - smaller) < config.maxDiffPercent * smaller
              pair(r1, r2) == <<r1.numerator, r1.denominator,
                                r2.numerator, r2.denominator>>
              returned == pair(Val(ret').ratioA, Val(ret').ratioB)
              unchanged == returned \in {pair(sampledA, sampledB),
                                         pair(sampledB, sampledA)}
          IN  /\ acceptable => unchanged
              /\ ~unchanged => call.attempts = 100]_vars
\* C31: in a divisibility session started with maxProblems >= 1,
\* problemCount stays within 1..maxProblems from startGame until reset (a
\* session runs while gameStartTime is set), and no problem is generated
\* beyond maxProblems: a step that raises problemCount starts from a count
\* below maxProblems, otherwise nextProblem ends the game in summary.
C31_ProblemCountWithinMax ==
    /\ []((/\ scenario \in DivScenarios
           /\ ~IsNull(useDivisibilityStore.gameStartTime)
           /\ useDivisibilityStore.maxProblems >= 1)
          => (/\ useDivisibilityStore.problemCount >= 1
              /\ useDivisibilityStore.problemCount
                    <= useDivisibilityStore.maxProblems))
    /\ [][(/\ scenario \in DivScenarios
           /\ useDivisibilityStore'.problemCount
                 > useDivisibilityStore.problemCount)
          => (useDivisibilityStore.problemCount
                < useDivisibilityStore.maxProblems)]_vars
\* C32: in the chain store each step is recorded at most once: in every
\* reachable state stepResults.length <= chain.steps.length, and while the
\* phase is playing stepResults.length = currentStepIndex.
C32_OneResultPerStep ==
    scenario = "useChainStore" /\ ~IsNull(useChainStore.chain) =>
        /\ Len(useChainStore.stepResults)
              <= Len(Val(useChainStore.chain).steps)
        /\ useChainStore.phase = "playing" =>
              Len(useChainStore.stepResults) = useChainStore.currentStepIndex
\* C33: whenever the chain store holds a chain,
\* 0 <= currentStepIndex < chain.steps.length, so getCurrentStep is never
\* null and getProgress returns 1 <= current <= total with
\* 0 < percentage <= 100; submitting or skipping on the last step (a step
\* that appends a result while the index is the last one) moves to review
\* without advancing the index.
C33_IndexWithinChain ==
    /\ []((scenario = "useChainStore" /\ ~IsNull(useChainStore.chain)) =>
            LET progress == chainGetProgress(useChainStore) IN
            /\ useChainStore.currentStepIndex >= 0
            /\ useChainStore.currentStepIndex
                  < Len(Val(useChainStore.chain).steps)
            /\ ~IsNull(chainGetCurrentStep(useChainStore))
            /\ 1 <= progress.current
            /\ progress.current <= progress.total
            /\ 0 < progress.percentage
            /\ progress.percentage <= 100)
    /\ [][(/\ scenario = "useChainStore"
           /\ ~IsNull(useChainStore.chain)
           /\ useChainStore.currentStepIndex
                 = Len(Val(useChainStore.chain).steps) - 1
           /\ Len(useChainStore'.stepResults)
                 > Len(useChainStore.stepResults))
          => (/\ useChainStore'.phase = "review"
              /\ useChainStore'.currentStepIndex
                    = useChainStore.currentStepIndex)]_vars
\* a chain answered up to its last step: the store is in review with the
\* index still on the last step
C33_LastStepAnswered ==
    /\ scenario = "useChainStore"
    /\ ~IsNull(useChainStore.chain)
    /\ useChainStore.phase = "review"
    /\ Len(useChainStore.stepResults) = Len(Val(useChainStore.chain).steps)
    /\ useChainStore.currentStepIndex
          = Len(Val(useChainStore.chain).steps) - 1
    /\ chainGetProgress(useChainStore).percentage = 100
\* C34: whenever the chain store's phase is setup or the divisibility
\* store's phase is setup, the session-scoped state is cleared: the current
\* chain / problem is null, the result log is empty and the timestamps are
\* null.
C34_SetupIsCleared ==
    /\ useChainStore.phase = "setup" =>
          /\ IsNull(useChainStore.chain)
          /\ useChainStore.stepResults = <<>>
          /\ IsNull(useChainStore.gameStartTime)
          /\ IsNull(useChainStore.stepStartTime)
    /\ useDivisibilityStore.phase = "setup" =>
          /\ IsNull(useDivisibilityStore.currentProblem)
          /\ useDivisibilityStore.results = <<>>
          /\ IsNull(useDivisibilityStore.gameStartTime)
          /\ IsNull(useDivisibilityStore.problemStartTime)
\* C35: ending a session in which no answer was recorded (empty result log)
\* leaves every persisted aggregate unchanged, in the chain store and in the
\* divisibility store alike: totalGamesPlayed is not incremented for a
\* session with zero results.
C35_EmptySessionNotCounted ==
    [][/\ (~IsNull(useChainStore.gameStartTime)
             /\ useChainStore.stepResults = <<>>) =>
            /\ useChainStore'.totalGamesPlayed
                  = useChainStore.totalGamesPlayed
            /\ useChainStore'.totalChainsCompleted
                  = useChainStore.totalChainsCompleted
            /\ useChainStore'.bestScore = useChainStore.bestScore
            /\ useChainStore'.history = useChainStore.history
       /\ (~IsNull(useDivisibilityStore.gameStartTime)
             /\ useDivisibilityStore.results = <<>>) =>
            /\ useDivisibilityStore'.totalGamesPlayed
                  = useDivisibilityStore.totalGamesPlayed
            /\ useDivisibilityStore'.totalProblemsAttempted
                  = useDivisibilityStore.totalProblemsAttempted
            /\ useDivisibilityStore'.totalCorrectDivisibility
                  = useDivisibilityStore.totalCorrectDivisibility
            /\ useDivisibilityStore'.totalCorrectRemainder
                  = useDivisibilityStore.totalCorrectRemainder
            /\ useDivisibilityStore'.bestAccuracy
                  = useDivisibilityStore.bestAccuracy]_vars
C37_StatsAreConsistent ==
    /\ [](LET stats == useGameStore.stats IN
          /\ stats.correctAnswers <= stats.totalQuestions
          /\ stats.currentStreak <= stats.bestStreak
          /\ stats.bestStreak <= stats.correctAnswers
          /\ Len(stats.sessionTimes) = stats.totalQuestions)
    /\ [][useGameStore_resetStats =>
            /\ useGameStore'.stats.totalQuestions = 0
            /\ useGameStore'.stats.correctAnswers = 0
            /\ useGameStore'.stats.currentStreak = 0
            /\ useGameStore'.stats.bestStreak = 0
            /\ useGameStore'.stats.sessionTimes = <<>>
            /\ useGameStore'.mode = useGameStore.mode
            /\ useGameStore'.difficulty = useGameStore.difficulty]_vars
\* a right answer followed by a wrong one, in a mode and at a difficulty
\* that are not the initial ones: every relation of the claim is strict
C37_RightThenWrong ==
    /\ scenario = "useGameStore"
    /\ useGameStore.stats.totalQuestions = 2
    /\ useGameStore.stats.correctAnswers = 1
    /\ useGameStore.stats.bestStreak = 1
    /\ useGameStore.stats.currentStreak = 0
    /\ Len(useGameStore.stats.sessionTimes) = 2
    /\ useGameStore.mode # useGameStoreInit.mode
    /\ useGameStore.difficulty # useGameStoreInit.difficulty
\* C38: in every generated chain, both operands of step 1 lie in the
\* difficulty's starting-number range, and for every step i >= 2 the addend
\* lies in the band matching the step index (band 1 for steps up to 5,
\* band 2 for 6-10, band 3 for 11-15, band 4 for 16 and above); every addend
\* is positive, so step results strictly increase along the chain.
C38_AddendsFollowBands ==
    /\ []((scenario = "generateChain step by step" /\ call.pc # "entry") =>
            LET step == call.pushed
                ranges == chainDifficultyRanges[call.config.difficulty]
                n == step.stepNumber
                band == IF n <= 5 THEN 1 ELSE IF n <= 10 THEN 2
                        ELSE IF n <= 15 THEN 3 ELSE 4
                within(v, range) == range.min <= v /\ v <= range.max
            IN  /\ n = 1 =>
                      /\ within(step.previousResult, ranges.startingNumbers)
                      /\ within(step.addend, ranges.startingNumbers)
                /\ n >= 2 =>
                      within(step.addend, ranges.addendProgression[band])
                /\ step.addend > 0
                /\ step.result > step.previousResult)
    /\ [][(scenario = "generateChain step by step" /\ call.pc = "loop"
             /\ call'.pc = "loop")
          => (/\ call'.pushed.stepNumber = call.pushed.stepNumber + 1
              /\ call'.pushed.result > call.pushed.result)]_vars
\* the twentieth step of a chain, with the largest addend of the fourth band
C38_LastStepInFourthBand ==
    /\ scenario = "generateChain step by step"
    /\ call.pc = "returned"
    /\ call.pushed.stepNumber = 20
    /\ call.pushed.addend
          = chainDifficultyRanges[call.config.difficulty]
               .addendProgression[4].max
    /\ Val(ret).finalResult = call.pushed.result
\* C39: in Mental Math mode the time appended to stats.sessionTimes for an
\* answer is the time elapsed from the presentation of the problem to the
\* submission of the answer. The first problem of a behaviour's first
\* answered session is presented by startGame, at MathGame.startTime.
C39_TimeSincePresentation ==
    [][(/\ scenario = "MathGame"
        /\ useGameStore.stats.totalQuestions = 0
        /\ useGameStore'.stats.totalQuestions = 1)
       => (/\ ~IsNull(MathGame.startTime)
           /\ useGameStore'.stats.sessionTimes
                 = <<now - Val(MathGame.startTime)>>)]_vars

====
